---- MODULE Spec2Model ----
(***************************************************************************)
(* DevSearch: a model of the rule-bearing operations of the application    *)
(* (reviews and vote ratio, tags, ownership checks, partial updates,       *)
(* registration, validation, authentication, tokens).  Each domain has its *)
(* own variables and its own specification; a domain's actions leave the   *)
(* other domains' variables unchanged.                                     *)
(***************************************************************************)
EXTENDS Integers, Sequences, FiniteSets, TLC

(***************************************************************************)
(* Bounds of the model                                                     *)
(***************************************************************************)
NumUsers == 2
NumProjects == 2
NumSlots == 2
MaxReviews == 2
MaxTags == 2
MaxImages == 1
MaxAssoc == 2
MaxProfiles == 2
MaxIssueTime == 1
MaxTime == 1442
MaxMessages == 2
MaxFiles == 2
MaxPage == 12
MaxSize == 3
MaxTotal == 21

Users == 1..NumUsers
Projects == 1..NumProjects
Slots == 1..NumSlots
Anonymous == 0
Values == {"up", "down"}
Titles == {"t1", "t2"}
TagNames == {"a", "b"}
TagIds == 1..MaxTags

VARIABLES
    reviews,        \* rows of table reviews: [id, project, owner, value]
    vote_total,     \* Project.vote_total, per project
    vote_ratio,     \* Project.vote_ratio, per project, as a reduced fraction
    title,          \* Project.title, per project
    nextReviewId,   \* number of the next Review row (stands for uuid4)
    req,            \* per request slot: the position of the handler it runs
    projects,       \* rows of table projects, by project_id
    tags,           \* rows of table tags: [id, name]
    project_tag,    \* rows of table project_tag, counted per (project_id, tag_id)
    nextProjectId,  \* number of the next Project row (stands for uuid4)
    nextTagId,      \* number of the next Tag row
    nextImage,      \* number of the next stored image file
    response,       \* who made the last request of the projects and tags routes, and what it got
    profile,        \* one row of table profiles (the columns of UpdateProfile, and username)
    project,        \* one row of table projects (the columns of UpdateProject)
    skill,          \* one row of table skills (the columns of SkillSchema)
    patch,          \* the last partial-update request: route, actor, payload, status
    vdb,            \* user_validation: the rows of table profiles it reads
    vform,          \* user_validation: its arguments
    verrors,        \* user_validation: the dict it returned
    profiles,       \* rows of table profiles: [id, username, email, password]
    nextProfileId,  \* number of the next Profile row (stands for uuid4)
    ureq,           \* per request slot: the position of the registration it runs
    authLog,        \* the last call of authenticate_user: arguments and result
    now,            \* the clock, in minutes
    held,           \* the token a client presents, with what it was issued as and when
    tokenOutcome,   \* what the last call of get_current_user returned or raised
    areq,           \* per request slot: the position of the assign_tag call it runs
    messages,       \* rows of table messages: [id, sender, recipient, is_read]
    nextMessageId,  \* number of the next Message row (stands for uuid4)
    mreq,           \* per request slot: the position of the delete_message it runs
    mresponse,      \* the last answer of the message routes
    profile_image,  \* Profile.profile_image of one profile, or that the row is gone
    featured_image, \* Project.featured_image of one project of that profile
    disk,           \* the image files on disk
    dayDir,         \* whether the directory of the day exists on disk
    removed,        \* the path the last request passed to os.remove, if any
    nextFile,       \* number of the next stored file (stands for uuid4)
    iresponse,      \* the last answer of the image routes
    pinput,         \* Paginator: the arguments of the constructor
    paginator,      \* Paginator: the object that was built, if any
    prange,         \* Paginator: what pages_range returned, if it was called
    listing,        \* the last request of a list page: its query parameters and what the handler made of them
    searched,       \* the last call of search_projects: its arguments and the list it returned
    project_row,    \* delete_project: whether the row of the project is stored
    project_reviews, \* delete_project: the number of Review rows of the project
    dresponse,      \* delete_project: the last answer of the page route
    cookie,         \* the access_token cookie of the browser, if it holds one
    logged_out,     \* the token that authenticated the last logout, until the next login
    authOutcome,    \* the last request of a page or API route and the user it was given
    stored_password, \* Profile.password, per profile
    cresponse,      \* the last answer of change_password
    shown           \* the last listing of projects on a page: its arguments, its items and its Paginator

reviewVars == <<reviews, vote_total, vote_ratio, title, nextReviewId, req>>

tagVars == <<projects, tags, project_tag, nextProjectId, nextTagId, nextImage, response>>

patchVars == <<profile, project, skill, patch>>

validationVars == <<vdb, vform, verrors>>

userVars == <<profiles, nextProfileId, ureq, authLog>>

tokenVars == <<now, held, tokenOutcome>>

assignVars == <<areq>>

messageVars == <<messages, nextMessageId, mreq, mresponse>>

imageVars == <<profile_image, featured_image, disk, dayDir, removed, nextFile, iresponse>>

pageVars == <<pinput, paginator, prange>>

listVars == <<listing>>

searchVars == <<searched>>

deleteVars == <<project_row, project_reviews, dresponse>>

sessionVars == <<cookie, logged_out, authOutcome, stored_password, cresponse>>

countVars == <<shown>>

vars == <<reviewVars, tagVars, patchVars, validationVars, userVars, tokenVars, assignVars, messageVars, imageVars, pageVars, listVars, searchVars, deleteVars, sessionVars, countVars>>

\* what the actions of one domain leave alone
NotReviews == <<tagVars, patchVars, validationVars, userVars, tokenVars, assignVars, messageVars, imageVars, pageVars, listVars, searchVars, deleteVars, sessionVars, countVars>>
NotTags == <<reviewVars, patchVars, validationVars, userVars, tokenVars, assignVars, messageVars, imageVars, pageVars, listVars, searchVars, deleteVars, sessionVars, countVars>>
NotPatches == <<reviewVars, tagVars, validationVars, userVars, tokenVars, assignVars, messageVars, imageVars, pageVars, listVars, searchVars, deleteVars, sessionVars, countVars>>
NotValidation == <<reviewVars, tagVars, patchVars, userVars, tokenVars, assignVars, messageVars, imageVars, pageVars, listVars, searchVars, deleteVars, sessionVars, countVars>>
NotUsers == <<reviewVars, tagVars, patchVars, validationVars, tokenVars, assignVars, messageVars, imageVars, pageVars, listVars, searchVars, deleteVars, sessionVars, countVars>>
NotTokens == <<reviewVars, tagVars, patchVars, validationVars, userVars, assignVars, messageVars, imageVars, pageVars, listVars, searchVars, deleteVars, sessionVars, countVars>>
NotAssign == <<reviewVars, patchVars, validationVars, userVars, tokenVars, messageVars, imageVars, pageVars, listVars, searchVars, deleteVars, sessionVars, countVars>>
NotMessages == <<reviewVars, tagVars, patchVars, validationVars, userVars, tokenVars, assignVars, imageVars, pageVars, listVars, searchVars, deleteVars, sessionVars, countVars>>
NotImages == <<reviewVars, tagVars, patchVars, validationVars, userVars, tokenVars, assignVars, messageVars, pageVars, listVars, searchVars, deleteVars, sessionVars, countVars>>
NotPages == <<reviewVars, tagVars, patchVars, validationVars, userVars, tokenVars, assignVars, messageVars, imageVars, listVars, searchVars, deleteVars, sessionVars, countVars>>
NotLists == <<reviewVars, tagVars, patchVars, validationVars, userVars, tokenVars, assignVars, messageVars, imageVars, pageVars, searchVars, deleteVars, sessionVars, countVars>>
NotSearch == <<reviewVars, patchVars, validationVars, userVars, tokenVars, assignVars, messageVars, imageVars, pageVars, listVars, deleteVars, sessionVars, countVars>>
NotDelete == <<reviewVars, tagVars, patchVars, validationVars, userVars, tokenVars, assignVars, messageVars, pageVars, listVars, searchVars, sessionVars, countVars>>
NotSession == <<reviewVars, tagVars, patchVars, validationVars, userVars, assignVars, messageVars, imageVars, pageVars, listVars, searchVars, deleteVars, countVars>>
NotCounts == <<reviewVars, patchVars, validationVars, userVars, tokenVars, assignVars, messageVars, imageVars, pageVars, listVars, searchVars, deleteVars, sessionVars>>

(***************************************************************************)
(* Helpers                                                                 *)
(***************************************************************************)
RECURSIVE GCD(_, _)
GCD(a, b) == IF b = 0 THEN a ELSE GCD(b, a % b)

\* The float up / total * 100, kept exact as the reduced fraction num/den.
Percent(up, total) ==
    LET g == GCD(up * 100, total)
    IN  [num |-> (up * 100) \div g, den |-> total \div g]

ZeroRatio == [num |-> 0, den |-> 1]

ProjectReviews(p) == {r \in reviews : r.project = p}
UpVotes(p) == Cardinality({r \in reviews : r.project = p /\ r.value = "up"})

(***************************************************************************)
(* Reviews and the vote ratio                                              *)
(***************************************************************************)
IdleReq == [pc |-> "idle", op |-> "none", actor |-> Anonymous, project |-> 0,
            value |-> "none", rid |-> 0, loaded |-> "none", up |-> 0,
            ratio |-> ZeroRatio, outcome |-> "none"]

\* The handler returns or raises: what is left of the request is its response
Finish(r, outcome) == [IdleReq EXCEPT !.pc = "done", !.op = r.op, !.project = r.project,
                                      !.outcome = outcome]

\* The request goes on to update_votes(project_id, db)
VotesReq(r) == [IdleReq EXCEPT !.pc = "votes_count", !.op = r.op, !.project = r.project]

update_vote_ratioZero(value, total) == ZeroRatio
\* Project.update_vote_ratio: self.vote_ratio = value / self.vote_total * 100
update_vote_ratio(value, total) == Percent(value, total)

\* The triggers of create_db_tables, run by the database with the row change.
TriggerAfterInsert(vt, p) == [vt EXCEPT ![p] = @ + 1]

TriggerAfterDeleteNone(vt, p) == vt
TriggerAfterDelete(vt, p) == [vt EXCEPT ![p] = @ - 1]

\* UniqueConstraint('project_id', 'owner_id') of Review
UniqueViolationNone(p, u) == FALSE
UniqueViolation(p, u) == \E r \in reviews : r.project = p /\ r.owner = u

\* A slot takes a request when it runs none
Free(s) == req[s].pc = "idle"

PendingInserts == Cardinality({s \in Slots : req[s].pc \in {"create_commit", "page_commit"}})

\* create_review: the select for an existing review
create_review_select(s, u, p, v) ==
    /\ Free(s)
    /\ nextReviewId + PendingInserts <= MaxReviews
    /\ LET r == [IdleReq EXCEPT !.op = "create_review", !.actor = u,
                                !.project = p, !.value = v]
       IN  req' = [req EXCEPT ![s] =
                IF \E x \in reviews : x.project = p /\ x.owner = u
                THEN Finish(r, "conflict")
                ELSE [r EXCEPT !.pc = "create_commit"]]
    /\ UNCHANGED <<reviews, vote_total, vote_ratio, title, nextReviewId>>
    /\ UNCHANGED NotReviews

\* create_review: db.add(review); commit_db(db)
create_review_commit(s) ==
    /\ req[s].pc = "create_commit"
    /\ LET r == req[s]
       IN  IF UniqueViolation(r.project, r.actor)
           THEN /\ req' = [req EXCEPT ![s] = Finish(r, "commit_error")]
                /\ UNCHANGED <<reviews, vote_total, nextReviewId>>
           ELSE /\ reviews' = reviews \cup {[id |-> nextReviewId, project |-> r.project,
                                             owner |-> r.actor, value |-> r.value]}
                /\ vote_total' = TriggerAfterInsert(vote_total, r.project)
                /\ nextReviewId' = nextReviewId + 1
                /\ req' = [req EXCEPT ![s] = VotesReq(r)]
    /\ UNCHANGED <<vote_ratio, title>>
    /\ UNCHANGED NotReviews

\* get_my_review as called by update_review
update_review_select(s, u, rid, v) ==
    /\ Free(s)
    /\ LET r == [IdleReq EXCEPT !.op = "update_review", !.actor = u, !.rid = rid, !.value = v]
           found == {x \in reviews : x.id = rid /\ x.owner = u}
       IN  req' = [req EXCEPT ![s] =
                IF found = {} THEN Finish(r, "not_found")
                ELSE LET x == CHOOSE y \in found : TRUE
                     IN  [r EXCEPT !.pc = "update_commit", !.project = x.project,
                                   !.loaded = x.value]]
    /\ UNCHANGED <<reviews, vote_total, vote_ratio, title, nextReviewId>>
    /\ UNCHANGED NotReviews

\* update_review: setattr over the payload; commit_db(db).  When the row is gone
\* the flush matches no row: an UPDATE is emitted when an attribute changed
\* (the value, or the body, which is not modelled) and the commit then fails.
update_review_commit(s) ==
    /\ req[s].pc = "update_commit"
    /\ LET r == req[s]
           rows == {x \in reviews : x.id = r.rid}
       IN  IF rows # {}
           THEN /\ reviews' = {IF x.id = r.rid THEN [x EXCEPT !.value = r.value] ELSE x
                               : x \in reviews}
                /\ req' = [req EXCEPT ![s] = VotesReq(r)]
           ELSE /\ reviews' = reviews
                /\ \/ req' = [req EXCEPT ![s] = Finish(r, "commit_error")]
                   \/ /\ r.value = r.loaded
                      /\ req' = [req EXCEPT ![s] = VotesReq(r)]
    /\ UNCHANGED <<vote_total, vote_ratio, title, nextReviewId>>
    /\ UNCHANGED NotReviews

\* get_my_review as called by delete_review
delete_review_select(s, u, rid) ==
    /\ Free(s)
    /\ LET r == [IdleReq EXCEPT !.op = "delete_review", !.actor = u, !.rid = rid]
           found == {x \in reviews : x.id = rid /\ x.owner = u}
       IN  req' = [req EXCEPT ![s] =
                IF found = {} THEN Finish(r, "not_found")
                ELSE LET x == CHOOSE y \in found : TRUE
                     IN  [r EXCEPT !.pc = "delete_commit", !.project = x.project,
                                   !.loaded = x.value]]
    /\ UNCHANGED <<reviews, vote_total, vote_ratio, title, nextReviewId>>
    /\ UNCHANGED NotReviews

\* delete_review: db.delete(review); commit_db(db).  A DELETE that matches no
\* row is only warned about.
delete_review_commit(s) ==
    /\ req[s].pc = "delete_commit"
    /\ LET r == req[s]
           rows == {x \in reviews : x.id = r.rid}
       IN  /\ reviews' = reviews \ rows
           /\ vote_total' = IF rows # {} THEN TriggerAfterDelete(vote_total, r.project)
                            ELSE vote_total
           /\ req' = [req EXCEPT ![s] = VotesReq(r)]
    /\ UNCHANGED <<vote_ratio, title, nextReviewId>>
    /\ UNCHANGED NotReviews

\* update_votes: the count of the project's 'up' reviews
update_votes_count(s) ==
    /\ req[s].pc = "votes_count"
    /\ LET r == req[s]
       IN  req' = [req EXCEPT ![s] = [r EXCEPT !.pc = "votes_load", !.up = UpVotes(r.project)]]
    /\ UNCHANGED <<reviews, vote_total, vote_ratio, title, nextReviewId>>
    /\ UNCHANGED NotReviews

\* update_votes: _get_project, then project.update_vote_ratio(up_votes), which
\* divides by the vote_total just loaded
update_votes_load(s) ==
    /\ req[s].pc = "votes_load"
    /\ LET r == req[s]
           total == vote_total[r.project]
       IN  req' = [req EXCEPT ![s] =
                IF total = 0 THEN Finish(r, "zero_division")
                ELSE [r EXCEPT !.pc = "votes_commit", !.up = 0,
                               !.ratio = update_vote_ratio(r.up, total)]]
    /\ UNCHANGED <<reviews, vote_total, vote_ratio, title, nextReviewId>>
    /\ UNCHANGED NotReviews

\* update_votes: commit_db(db) writes the changed attribute, vote_ratio
update_votes_commit(s) ==
    /\ req[s].pc = "votes_commit"
    /\ vote_ratio' = [vote_ratio EXCEPT ![req[s].project] = req[s].ratio]
    /\ req' = [req EXCEPT ![s] = Finish(req[s], "ok")]
    /\ UNCHANGED <<reviews, vote_total, title, nextReviewId>>
    /\ UNCHANGED NotReviews

\* project (page): the select that sets already_reviewed; a POST by an
\* authenticated user who has not reviewed goes on to insert
project_page_select(s, u, p, v) ==
    /\ Free(s)
    /\ nextReviewId + PendingInserts <= MaxReviews
    /\ LET r == [IdleReq EXCEPT !.op = "project_page", !.actor = u,
                                !.project = p, !.value = v]
       IN  req' = [req EXCEPT ![s] =
                IF u = Anonymous \/ \E x \in reviews : x.project = p /\ x.owner = u
                THEN Finish(r, "rendered")
                ELSE [r EXCEPT !.pc = "page_commit"]]
    /\ UNCHANGED <<reviews, vote_total, vote_ratio, title, nextReviewId>>
    /\ UNCHANGED NotReviews

\* project (page): db.add(review); commit_db(db); the page is rendered
project_page_commit(s) ==
    /\ req[s].pc = "page_commit"
    /\ LET r == req[s]
       IN  IF UniqueViolation(r.project, r.actor)
           THEN /\ req' = [req EXCEPT ![s] = Finish(r, "commit_error")]
                /\ UNCHANGED <<reviews, vote_total, nextReviewId>>
           ELSE /\ reviews' = reviews \cup {[id |-> nextReviewId, project |-> r.project,
                                             owner |-> r.actor, value |-> r.value]}
                /\ vote_total' = TriggerAfterInsert(vote_total, r.project)
                /\ nextReviewId' = nextReviewId + 1
                /\ req' = [req EXCEPT ![s] = Finish(r, "ok")]
    /\ UNCHANGED <<vote_ratio, title>>
    /\ UNCHANGED NotReviews

\* Update_project: setattr over the fields of UpdateProject, commit
Update_project_title(p, t) ==
    /\ title[p] # t
    /\ title' = [title EXCEPT ![p] = t]
    /\ UNCHANGED <<reviews, vote_total, vote_ratio, nextReviewId, req>>
    /\ UNCHANGED NotReviews

\* The response is out and the slot is free for the next request
Respond(s) ==
    /\ req[s].pc = "done"
    /\ req' = [req EXCEPT ![s] = IdleReq]
    /\ UNCHANGED <<reviews, vote_total, vote_ratio, title, nextReviewId>>
    /\ UNCHANGED NotReviews

ReviewInit ==
    /\ reviews = {}
    /\ vote_total = [p \in Projects |-> 0]
    /\ vote_ratio = [p \in Projects |-> ZeroRatio]
    /\ title = [p \in Projects |-> "t1"]
    /\ nextReviewId = 1
    /\ req = [s \in Slots |-> IdleReq]

ReviewNext ==
    \/ \E s \in Slots, u \in Users, p \in Projects, v \in Values : create_review_select(s, u, p, v)
    \/ \E s \in Slots : create_review_commit(s)
    \/ \E s \in Slots, u \in Users, rid \in 1..MaxReviews, v \in Values : update_review_select(s, u, rid, v)
    \/ \E s \in Slots : update_review_commit(s)
    \/ \E s \in Slots, u \in Users, rid \in 1..MaxReviews : delete_review_select(s, u, rid)
    \/ \E s \in Slots : delete_review_commit(s)
    \/ \E s \in Slots : update_votes_count(s)
    \/ \E s \in Slots : update_votes_load(s)
    \/ \E s \in Slots : update_votes_commit(s)
    \/ \E s \in Slots, u \in Users \cup {Anonymous}, p \in Projects, v \in Values : project_page_select(s, u, p, v)
    \/ \E s \in Slots : project_page_commit(s)
    \/ \E p \in Projects, t \in Titles : Update_project_title(p, t)
    \/ \E s \in Slots : Respond(s)

(***************************************************************************)
(* Claims about reviews and the vote ratio                                 *)
(***************************************************************************)
ReviewWrites == {"create_review", "update_review", "delete_review", "project_page"}
NoneInFlight == \A s \in Slots : req[s].pc \in {"idle", "done"}

\* C1: after every completed review create, update or delete (JSON API or the
\* review form of the project page) the project's stored vote_ratio equals
\* (number of its reviews with value up) / vote_total * 100.
C1_RatioAfterEveryReviewWrite ==
    \A s \in Slots :
        (/\ req[s].pc = "done"
         /\ req[s].op \in ReviewWrites
         /\ req[s].outcome = "ok"
         /\ NoneInFlight)
        => /\ vote_total[req[s].project] > 0
           /\ vote_ratio[req[s].project] =
                  Percent(UpVotes(req[s].project), vote_total[req[s].project])

\* C2: in every reachable state each project's vote_total is the number of
\* Review rows of that project (an insert raises it by one, a delete lowers
\* it by one, nothing else writes it).
C2_VoteTotalIsReviewCount ==
    \A p \in Projects : vote_total[p] = Cardinality(ProjectReviews(p))

\* Two reviews were inserted, one of them was deleted again, the ratio was
\* recomputed and the project was updated.
C2_Witness ==
    \E p \in Projects :
        /\ nextReviewId = 3
        /\ vote_total[p] = 1
        /\ vote_ratio[p] # ZeroRatio
        /\ title[p] = "t2"
        /\ \E s \in Slots : req[s].op = "delete_review" /\ req[s].outcome = "ok"

HasReview(p, u) == \E x \in reviews : x.project = p /\ x.owner = u

\* C3: a create for a (project, user) pair that already has a review ends in
\* Conflict and changes no review, vote_total or vote_ratio; a create that
\* ends in an error inserts nothing; and in every reachable state, whatever
\* the interleaving of creates, there is at most one review per pair.
C3_OneReviewPerPair ==
    /\ [](\A x, y \in reviews : (x.project = y.project /\ x.owner = y.owner) => x = y)
    /\ [][\A s \in Slots, u \in Users, p \in Projects, v \in Values :
            (create_review_select(s, u, p, v) /\ HasReview(p, u))
            => /\ req'[s].pc = "done" /\ req'[s].outcome = "conflict"
               /\ UNCHANGED <<reviews, vote_total, vote_ratio>>]_vars
    /\ [][\A s \in Slots :
            (req'[s] # req[s] /\ req'[s].op = "create_review"
             /\ req'[s].outcome \in {"conflict", "commit_error"})
            => UNCHANGED <<reviews, vote_total, vote_ratio>>]_vars

\* One create lost the race to the unique constraint, a later one met the
\* existing review.
C3_Witness ==
    \E s, t \in Slots :
        /\ req[s].op = "create_review" /\ req[s].outcome = "commit_error"
        /\ req[t].op = "create_review" /\ req[t].outcome = "conflict"
        /\ reviews # {}

ApiReviewWrites == {"create_review", "update_review", "delete_review"}

\* slot s takes a step of the request it runs
Steps(s) == req'[s] # req[s]

\* C22: the review write and the ratio recompute are separate commits, and
\* the recompute reads the count of up reviews and the project's vote_total
\* in separate steps and writes the ratio of what it read, whatever was
\* committed in between; an interleaving of two review writes on one project
\* ends with both requests finished and a vote_ratio other than
\* (up reviews) / vote_total * 100.
C22_RecomputeInSeparateSteps ==
    [][/\ reviews' # reviews => vote_ratio' = vote_ratio
       /\ \A s \in Slots :
            LET p == req[s].project
            IN  /\ (req[s].pc = "votes_count" /\ Steps(s))
                   => /\ req'[s].pc = "votes_load"
                      /\ req'[s].up = UpVotes(p)
                      /\ UNCHANGED <<reviews, vote_total, vote_ratio>>
                /\ (req[s].pc = "votes_load" /\ Steps(s) /\ vote_total[p] > 0)
                   => /\ req'[s].pc = "votes_commit"
                      /\ req'[s].ratio = Percent(req[s].up, vote_total[p])
                      /\ UNCHANGED <<reviews, vote_total, vote_ratio>>
                /\ (req[s].pc = "votes_commit" /\ Steps(s))
                   => /\ vote_ratio'[p] = req[s].ratio
                      /\ req'[s].outcome = "ok"
                      /\ UNCHANGED <<reviews, vote_total>>]_vars

\* Two requests of the JSON API on one project have both finished and the
\* stored ratio is not the ratio of the stored reviews.
C22_Witness ==
    \E s, t \in Slots :
        /\ s # t
        /\ req[s].pc = "done" /\ req[s].op \in ApiReviewWrites /\ req[s].outcome = "ok"
        /\ req[t].pc = "done" /\ req[t].op \in ApiReviewWrites /\ req[t].outcome = "ok"
        /\ req[s].project = req[t].project
        /\ vote_total[req[s].project] > 0
        /\ vote_ratio[req[s].project] #
               Percent(UpVotes(req[s].project), vote_total[req[s].project])

\* C23: deleting the only review of a project commits the removal, and with
\* it vote_total = 0, first; the recompute then divides by vote_total = 0 and
\* fails: the request ends in an error, the review is gone and vote_ratio
\* holds the value it had before the deletion.
C23_DeleteOnlyReview ==
    [][\A s \in Slots :
          LET p == req[s].project
              row == {x \in reviews : x.id = req[s].rid}
          IN  req[s].op = "delete_review" /\ Steps(s)
              => /\ (req[s].pc = "delete_commit" /\ row # {} /\ ProjectReviews(p) = row)
                    => /\ reviews' = reviews \ row
                       /\ vote_total'[p] = 0
                       /\ vote_ratio' = vote_ratio
                       /\ req'[s].pc = "votes_count"
                 /\ (req[s].pc = "votes_count") => UNCHANGED <<reviews, vote_total, vote_ratio>>
                 /\ (req[s].pc = "votes_load" /\ vote_total[p] = 0)
                    => /\ req'[s].pc = "done"
                       /\ req'[s].outcome = "zero_division"
                       /\ UNCHANGED <<reviews, vote_total, vote_ratio>>]_vars

\* The only review of a project, whose ratio had been computed, was deleted
\* and the request failed in the recompute.
C23_Witness ==
    \E s \in Slots :
        /\ req[s].pc = "done" /\ req[s].op = "delete_review"
        /\ req[s].outcome = "zero_division"
        /\ ProjectReviews(req[s].project) = {}
        /\ vote_total[req[s].project] = 0
        /\ vote_ratio[req[s].project] # ZeroRatio

\* C28: in every reachable state, those reached while review requests on one
\* project interleave included, every project's stored vote_ratio is a
\* percentage between 0 and 100 inclusive.
C28_RatioIsPercentage ==
    \A p \in Projects :
        /\ 0 <= vote_ratio[p].num
        /\ vote_ratio[p].num <= 100 * vote_ratio[p].den

(***************************************************************************)
(* Projects and tags: ownership checks and the tag association             *)
(***************************************************************************)
\* A path is its directory and the number that stands for the file name.
\* Project.featured_image defaults to '/static/images/default.jpg'.
DefaultImage == [dir |-> "/static/images", file |-> 0]
\* save_and_compress_image: a new file, named by a fresh uuid, under the
\* directory of the day
StoredImage(i) == [dir |-> "images/date", file |-> i]
Actors == Users \cup {Anonymous}
Authenticated(a) == a \in Users

\* the requester and the status of the response
Reply(a, st) == [actor |-> a, status |-> st]

Exists(p) == p \in DOMAIN projects
LinkCount(p, t) == project_tag[<<p, t>>]
Linked(p, t) == LinkCount(p, t) > 0
TagsOf(p) == {t \in TagIds : Linked(p, t)}
\* the rows of project_tag that name tag t
TagRows(pt, t) == LET S == 1..NumProjects
                      RECURSIVE Sum(_)
                      Sum(T) == IF T = {} THEN 0
                                ELSE LET x == CHOOSE y \in T : TRUE
                                     IN  pt[<<x, t>>] + Sum(T \ {x})
                  IN  Sum(S)
TagByName(n) == {t \in tags : t.name = n}

\* create_project_api / create_project: Project(**model_dump(), owner_id=...)
NewProject(u, t) == [owner_id |-> u, title |-> t, featured_image |-> DefaultImage]

\* assign_tag(tag_name, project, db): the first Tag with the name is linked,
\* a missing one is created and linked.  The result is <<tags, project_tag, nextTagId>>.
assign_tag(tg, pt, nid, n, p) ==
    LET found == {t \in tg : t.name = n}
    IN  IF found = {}
        THEN <<tg \cup {[id |-> nid, name |-> n]}, [pt EXCEPT ![<<p, nid>>] = @ + 1], nid + 1>>
        ELSE LET t == CHOOSE x \in found : \A y \in found : x.id <= y.id
             IN  <<tg, [pt EXCEPT ![<<p, t.id>>] = @ + 1], nid>>

\* whether assign_tag of name n to project p stays within the model's bounds
AssignInBounds(n, p) ==
    LET found == {t \in tags : t.name = n}
    IN  IF found = {} THEN nextTagId <= MaxTags
        ELSE \A t \in found : LinkCount(p, t.id) < MaxAssoc

\* create_project_api (JSON) and create_project (page, without newtags)
create_project(a, t) ==
    /\ nextProjectId <= NumProjects
    /\ IF ~Authenticated(a)
       THEN /\ response' = Reply(a, "login_required")
            /\ UNCHANGED <<projects, nextProjectId>>
       ELSE /\ projects' = (nextProjectId :> NewProject(a, t)) @@ projects
            /\ nextProjectId' = nextProjectId + 1
            /\ response' = Reply(a, "ok")
    /\ UNCHANGED <<tags, project_tag, nextTagId, nextImage>>
    /\ UNCHANGED NotTags

\* Update_project (JSON): the owner check, then setattr and commit
Update_project(a, p, t) ==
    /\ IF ~Authenticated(a) THEN response' = Reply(a, "unauthorized") /\ UNCHANGED projects
       ELSE IF ~Exists(p) THEN response' = Reply(a, "server_error") /\ UNCHANGED projects
       ELSE IF projects[p].owner_id # a THEN response' = Reply(a, "unauthorized") /\ UNCHANGED projects
       ELSE /\ projects' = [projects EXCEPT ![p].title = t]
            /\ response' = Reply(a, "ok")
    /\ UNCHANGED <<tags, project_tag, nextProjectId, nextTagId, nextImage>>
    /\ UNCHANGED NotTags

\* Update_project_image (JSON): the owner check, then the new path is stored
Update_project_image(a, p) ==
    /\ nextImage <= MaxImages
    /\ IF ~Authenticated(a) THEN response' = Reply(a, "unauthorized") /\ UNCHANGED <<projects, nextImage>>
       ELSE IF ~Exists(p) THEN response' = Reply(a, "server_error") /\ UNCHANGED <<projects, nextImage>>
       ELSE IF projects[p].owner_id # a
            THEN response' = Reply(a, "unauthorized") /\ UNCHANGED <<projects, nextImage>>
       ELSE /\ projects' = [projects EXCEPT ![p].featured_image = StoredImage(nextImage)]
            /\ nextImage' = nextImage + 1
            /\ response' = Reply(a, "ok")
    /\ UNCHANGED <<tags, project_tag, nextProjectId, nextTagId>>
    /\ UNCHANGED NotTags

\* delete_project (JSON): the owner check; db.delete(user) is then handed the
\* token's dict, which is no mapped row: the request fails and deletes no row
delete_project_api(a, p) ==
    /\ IF ~Authenticated(a) THEN response' = Reply(a, "unauthorized")
       ELSE IF ~Exists(p) THEN response' = Reply(a, "server_error")
       ELSE IF projects[p].owner_id # a THEN response' = Reply(a, "unauthorized")
       ELSE response' = Reply(a, "server_error")
    /\ UNCHANGED <<projects, tags, project_tag, nextProjectId, nextTagId, nextImage>>
    /\ UNCHANGED NotTags

\* update_project (page, POST): @requires('authenticated'), get_project, 404,
\* then setattr of the form's fields, the new image and assign_tag per new tag
update_project(a, p, t, img, newtags) ==
    /\ img => nextImage <= MaxImages
    /\ \A n \in newtags : AssignInBounds(n, p)
    /\ IF ~Authenticated(a)
       THEN /\ response' = Reply(a, "login_required")
            /\ UNCHANGED <<projects, tags, project_tag, nextTagId, nextImage>>
       ELSE IF ~Exists(p)
       THEN /\ response' = Reply(a, "not_found")
            /\ UNCHANGED <<projects, tags, project_tag, nextTagId, nextImage>>
       ELSE /\ projects' = [projects EXCEPT ![p].title = t,
                                ![p].featured_image = IF img THEN StoredImage(nextImage) ELSE @]
            /\ nextImage' = IF img THEN nextImage + 1 ELSE nextImage
            /\ IF newtags = {}
               THEN UNCHANGED <<tags, project_tag, nextTagId>>
               ELSE LET n == CHOOSE x \in newtags : TRUE
                        res == assign_tag(tags, project_tag, nextTagId, n, p)
                    IN  /\ tags' = res[1]
                        /\ project_tag' = res[2]
                        /\ nextTagId' = res[3]
            /\ response' = Reply(a, "ok")
    /\ UNCHANGED nextProjectId
    /\ UNCHANGED NotTags

\* delete_project (page, POST): get_project, 404, db.delete(project) and commit;
\* the rows of project_tag of the project go with it (Project.tags, secondary)
delete_project(a, p) ==
    /\ IF ~Exists(p)
       THEN /\ response' = Reply(a, "not_found")
            /\ UNCHANGED <<projects, project_tag>>
       ELSE /\ projects' = [q \in DOMAIN projects \ {p} |-> projects[q]]
            /\ project_tag' = [k \in DOMAIN project_tag |-> IF k[1] = p THEN 0 ELSE project_tag[k]]
            /\ response' = Reply(a, "ok")
    /\ UNCHANGED <<tags, nextProjectId, nextTagId, nextImage>>
    /\ UNCHANGED NotTags

\* post_tag (JSON): the owner check; print(tag_exist.__dict__) then fails for a
\* name that has no Tag row; an existing Tag is linked
post_tag(a, n, p) ==
    /\ \A t \in TagByName(n) : LinkCount(p, t.id) < MaxAssoc
    /\ IF ~Authenticated(a) THEN response' = Reply(a, "unauthorized") /\ UNCHANGED project_tag
       ELSE IF ~Exists(p) THEN response' = Reply(a, "server_error") /\ UNCHANGED project_tag
       ELSE IF projects[p].owner_id # a THEN response' = Reply(a, "unauthorized") /\ UNCHANGED project_tag
       ELSE IF TagByName(n) = {} THEN response' = Reply(a, "server_error") /\ UNCHANGED project_tag
       ELSE /\ project_tag' = assign_tag(tags, project_tag, nextTagId, n, p)[2]
            /\ response' = Reply(a, "ok")
    /\ UNCHANGED <<projects, tags, nextProjectId, nextTagId, nextImage>>
    /\ UNCHANGED NotTags

\* delete_tag (JSON, and the page's delete_tag through it): the owner of the
\* linked project is selected (404 without a link), compared with the actor,
\* the pair's rows are deleted and the Tag with them when no row is left;
\* scalar_one_or_none raises when more than one row is left
delete_tag(a, t, p) ==
    /\ IF ~Authenticated(a)
       THEN response' = Reply(a, "unauthorized") /\ UNCHANGED <<tags, project_tag>>
       ELSE IF ~(Exists(p) /\ Linked(p, t))
       THEN response' = Reply(a, "not_found") /\ UNCHANGED <<tags, project_tag>>
       ELSE IF projects[p].owner_id # a
       THEN response' = Reply(a, "unauthorized") /\ UNCHANGED <<tags, project_tag>>
       ELSE LET pt == [project_tag EXCEPT ![<<p, t>>] = 0]
                left == TagRows(pt, t)
            IN  IF left > 1
                THEN response' = Reply(a, "server_error") /\ UNCHANGED <<tags, project_tag>>
                ELSE /\ project_tag' = pt
                     /\ tags' = IF left = 0 THEN {x \in tags : x.id # t} ELSE tags
                     /\ response' = Reply(a, "ok")
    /\ UNCHANGED <<projects, nextProjectId, nextTagId, nextImage>>
    /\ UNCHANGED NotTags

TagInit ==
    /\ projects = <<>>
    /\ tags = {}
    /\ project_tag = [k \in (1..NumProjects) \X TagIds |-> 0]
    /\ nextProjectId = 1
    /\ nextTagId = 1
    /\ nextImage = 1
    /\ response = Reply(Anonymous, "none")

TagNext ==
    \/ \E a \in Actors, t \in Titles : create_project(a, t)
    \/ \E a \in Actors, p \in 1..NumProjects, t \in Titles : Update_project(a, p, t)
    \/ \E a \in Actors, p \in 1..NumProjects : Update_project_image(a, p)
    \/ \E a \in Actors, p \in 1..NumProjects : delete_project_api(a, p)
    \/ \E a \in Actors, p \in 1..NumProjects, t \in Titles, img \in BOOLEAN,
          newtags \in {{}} \cup {{n} : n \in TagNames} : update_project(a, p, t, img, newtags)
    \/ \E a \in Actors, p \in 1..NumProjects : delete_project(a, p)
    \/ \E a \in Actors, n \in TagNames, p \in 1..NumProjects : post_tag(a, n, p)
    \/ \E a \in Actors, t \in TagIds, p \in 1..NumProjects : delete_tag(a, t, p)

(***************************************************************************)
(* Claims about ownership and tags                                         *)
(***************************************************************************)
\* a request of actor a that updates or deletes project p or adds or removes
\* one of its tags, on the JSON API or on the page routes
MutationAttempt(a, p) ==
    \/ \E t \in Titles : Update_project(a, p, t)
    \/ Update_project_image(a, p)
    \/ delete_project_api(a, p)
    \/ \E t \in Titles, img \in BOOLEAN, newtags \in {{}} \cup {{n} : n \in TagNames} :
          update_project(a, p, t, img, newtags)
    \/ delete_project(a, p)
    \/ \E n \in TagNames : post_tag(a, n, p)
    \/ \E t \in TagIds : delete_tag(a, t, p)

\* C4: every attempt of a requester who is not authenticated as the owner to
\* update or delete a project, or to add or remove a tag of it, fails and
\* leaves the project, its tags and its image unchanged.
C4_OnlyOwnerMutates ==
    [][\A a \in Actors, p \in DOMAIN projects :
          (a # projects[p].owner_id /\ MutationAttempt(a, p))
          => /\ response'.status # "ok"
             /\ p \in DOMAIN projects'
             /\ projects'[p] = projects[p]
             /\ \A t \in TagIds : project_tag'[<<p, t>>] = project_tag[<<p, t>>]]_vars

\* C10: after every completed request every Tag row is associated with at
\* least one existing project.
C10_NoOrphanTag ==
    \A t \in tags : \E p \in DOMAIN projects : Linked(p, t.id)

\* the association rows other than those of the pair (p, t) are the same
\* before and after the step
OtherLinksKept(p, t) ==
    \A q \in 1..NumProjects, x \in TagIds :
        <<q, x>> # <<p, t>> => project_tag'[<<q, x>>] = project_tag[<<q, x>>]

\* C11: delete_tag is refused (the handler's 401) whenever the actor does not
\* own the project, and answers NotFound when the owner names a pair with no
\* association, changing nothing in both cases; otherwise it removes that
\* association alone, keeps the Tag row while another project references the
\* tag, however many do, and deletes the Tag row exactly when none remains.
C11_DeleteTagOutcome ==
    [][\A a \in Users, t \in TagIds, p \in DOMAIN projects :
          delete_tag(a, t, p)
          => IF projects[p].owner_id # a
             THEN response'.status = "unauthorized" /\ UNCHANGED <<tags, project_tag>>
             ELSE IF ~Linked(p, t)
             THEN response'.status = "not_found" /\ UNCHANGED <<tags, project_tag>>
             ELSE /\ response'.status = "ok"
                  /\ project_tag'[<<p, t>>] = 0
                  /\ OtherLinksKept(p, t)
                  /\ tags' = IF \E q \in DOMAIN projects : q # p /\ Linked(q, t)
                             THEN tags
                             ELSE {x \in tags : x.id # t}]_vars

\* C13: attaching a tag is idempotent: however often the same name is
\* attached to the same project, on the create and update forms or through
\* post_tag, there is exactly one association row for the pair, as after
\* attaching it once.
C13_OneRowPerPair ==
    \A p \in 1..NumProjects, t \in TagIds : LinkCount(p, t) <= 1

\* the owner adds tag name n to project p, through post_tag or through
\* assign_tag of the project form
AddTag(a, n, p) ==
    \/ post_tag(a, n, p)
    \/ \E t \in Titles, img \in BOOLEAN : update_project(a, p, t, img, {n})

\* C25: adding to a project a tag name for which no Tag row exists succeeds
\* and creates exactly one Tag row with that name and one association of it
\* with the project, on the API route post_tag as well as through assign_tag
\* of the project forms.
C25_NewTagNameAdded ==
    [][\A a \in Users, n \in TagNames, p \in DOMAIN projects :
          (TagByName(n) = {} /\ projects[p].owner_id = a /\ AddTag(a, n, p))
          => /\ response'.status = "ok"
             /\ Cardinality({t \in tags' : t.name = n}) = 1
             /\ \A t \in tags' : t.name = n => project_tag'[<<p, t.id>>] = 1]_vars

(***************************************************************************)
(* assign_tag, one await at a time: requests of several sessions interleave *)
(***************************************************************************)
NoTag == 0
IdleAssign == [pc |-> "idle", name |-> "a", project |-> 1, tag_exist |-> NoTag]

\* tag_exist = (await db.scalars(select(Tag).where(Tag.name == tag_name))).first():
\* the session reads the committed rows; first() takes whichever matching row
\* the database returns first
assign_tag_select(s, n, p) ==
    /\ areq[s].pc = "idle"
    /\ Exists(p)
    /\ \E found \in IF TagByName(n) = {} THEN {NoTag} ELSE {t.id : t \in TagByName(n)} :
          areq' = [areq EXCEPT ![s] = [pc |-> "selected", name |-> n, project |-> p,
                                       tag_exist |-> found]]
    /\ UNCHANGED tagVars
    /\ UNCHANGED NotAssign

\* the rest of assign_tag: a new Tag with its association, or the association
\* with the Tag that was read, and the commit
assign_tag_commit(s) ==
    LET r == areq[s]
    IN  /\ r.pc = "selected"
        /\ IF r.tag_exist = NoTag
           THEN /\ nextTagId <= MaxTags
                /\ tags' = tags \cup {[id |-> nextTagId, name |-> r.name]}
                /\ project_tag' = [project_tag EXCEPT ![<<r.project, nextTagId>>] = @ + 1]
                /\ nextTagId' = nextTagId + 1
           ELSE /\ LinkCount(r.project, r.tag_exist) < MaxAssoc
                /\ project_tag' = [project_tag EXCEPT ![<<r.project, r.tag_exist>>] = @ + 1]
                /\ UNCHANGED <<tags, nextTagId>>
        /\ areq' = [areq EXCEPT ![s] = IdleAssign]
        /\ UNCHANGED <<projects, nextProjectId, nextImage, response>>
        /\ UNCHANGED NotAssign

AssignInit == areq = [s \in Slots |-> IdleAssign]

AssignNext ==
    \/ \E a \in Actors, t \in Titles : create_project(a, t)
    \/ \E s \in Slots, n \in TagNames, p \in 1..NumProjects : assign_tag_select(s, n, p)
    \/ \E s \in Slots : assign_tag_commit(s)

\* C12: after any sequence of tag assignments, two interleaved assignments
\* of one previously unused name to two different projects included, the
\* table tags holds at most one row per name.
C12_OneTagPerName ==
    \A x, y \in tags : x.name = y.name => x.id = y.id

(***************************************************************************)
(* Partial updates of a profile, a project and a skill (JSON API)          *)
(***************************************************************************)
\* a JSON payload gives each field of the schema a string, null, or nothing
None == "None"
Absent == "absent"
Strings == {"v1", "v2"}
ProfileFields == {"first_name", "bio"}
ProjectFields == {"title", "description"}
SkillFields == {"name", "description"}
Payloads(fields) == [fields -> Strings \cup {None, Absent}]
Owner == 1

\* pydantic: a field with a default takes it when the payload leaves it out;
\* model_dump() returns every field of the schema, set or not
model_dump(payload, defaults) ==
    [f \in DOMAIN payload |-> IF payload[f] = Absent THEN defaults[f] ELSE payload[f]]

\* UpdateProfile and UpdateProject: every field defaults to None
UpdateProfileDefaults == [f \in ProfileFields |-> None]
UpdateProjectDefaults == [f \in ProjectFields |-> None]
\* SkillSchema: name is a required str, description defaults to None
SkillSchemaDefaults == [f \in SkillFields |-> None]
SkillSchemaValid(payload) == payload["name"] \in Strings

\* setattr(row, key, value) for every item of the dump
SetAttrs(row, dump) ==
    [f \in DOMAIN row |-> IF f \in DOMAIN dump THEN dump[f] ELSE row[f]]

Patch(op, a, payload, status) ==
    [op |-> op, actor |-> a, payload |-> payload, status |-> status]

\* PUT /my-profile/: the token's profile is loaded and every dumped item set
update_profile(a, payload) ==
    /\ IF ~Authenticated(a)
       THEN /\ patch' = Patch("update_profile", a, payload, "unauthorized")
            /\ UNCHANGED profile
       ELSE IF a # Owner
       THEN /\ patch' = Patch("update_profile", a, payload, "other_profile")
            /\ UNCHANGED profile
       ELSE /\ profile' = SetAttrs(profile, model_dump(payload, UpdateProfileDefaults))
            /\ patch' = Patch("update_profile", a, payload, "ok")
    /\ UNCHANGED <<project, skill>>
    /\ UNCHANGED NotPatches

\* PUT /projects/{project_id}: owner check, every dumped item set; the commit
\* of a null title breaks the NOT NULL constraint and commit_db rolls back
Update_project_payload(a, payload) ==
    /\ IF ~Authenticated(a) \/ a # Owner
       THEN /\ patch' = Patch("Update_project", a, payload, "unauthorized")
            /\ UNCHANGED project
       ELSE LET row == SetAttrs(project, model_dump(payload, UpdateProjectDefaults))
            IN  IF row["title"] = None
                THEN /\ patch' = Patch("Update_project", a, payload, "server_error")
                     /\ UNCHANGED project
                ELSE /\ project' = row
                     /\ patch' = Patch("Update_project", a, payload, "ok")
    /\ UNCHANGED <<profile, skill>>
    /\ UNCHANGED NotPatches

\* PUT /skills/me/skill/{skill_id}: the schema is validated, get_skill finds
\* the skill among the requester's own, every dumped item is set
update_skill_api(a, payload) ==
    /\ IF ~SkillSchemaValid(payload)
       THEN /\ patch' = Patch("update_skill_api", a, payload, "unprocessable")
            /\ UNCHANGED skill
       ELSE IF ~Authenticated(a)
       THEN /\ patch' = Patch("update_skill_api", a, payload, "unauthorized")
            /\ UNCHANGED skill
       ELSE IF a # Owner
       THEN /\ patch' = Patch("update_skill_api", a, payload, "not_found")
            /\ UNCHANGED skill
       ELSE /\ skill' = SetAttrs(skill, model_dump(payload, SkillSchemaDefaults))
            /\ patch' = Patch("update_skill_api", a, payload, "ok")
    /\ UNCHANGED <<profile, project>>
    /\ UNCHANGED NotPatches

PatchInit ==
    /\ profile = [username |-> "v1", first_name |-> None, bio |-> None]
    /\ project = [title |-> "v1", description |-> None]
    /\ skill = [name |-> "v1", description |-> None]
    /\ patch = Patch("none", Anonymous, [f \in {} |-> Absent], "none")

PatchNext ==
    \/ \E a \in Actors, payload \in Payloads(ProfileFields) : update_profile(a, payload)
    \/ \E a \in Actors, payload \in Payloads(ProjectFields) : Update_project_payload(a, payload)
    \/ \E a \in Actors, payload \in Payloads(SkillFields) : update_skill_api(a, payload)

(***************************************************************************)
(* Claim about partial updates                                             *)
(***************************************************************************)
\* the row a request of route op works on
RowOf(op, pr, pj, sk) ==
    IF op = "update_profile" THEN pr ELSE IF op = "Update_project" THEN pj ELSE sk

\* C5: a partial update of a profile, a project or a skill keeps the stored
\* value of every field that is absent from the payload, and stores null in
\* every field the payload carries as null.
C5_AbsentKeptNullStored ==
    [][patch'.status = "ok"
       => \A f \in DOMAIN patch'.payload :
             /\ patch'.payload[f] = Absent
                => RowOf(patch'.op, profile', project', skill')[f]
                      = RowOf(patch'.op, profile, project, skill)[f]
             /\ patch'.payload[f] = None
                => RowOf(patch'.op, profile', project', skill')[f] = None]_vars

(***************************************************************************)
(* Validation of a registration (user_validation)                          *)
(***************************************************************************)
\* A text is a sequence of parts; an e-mail address is local part, "@",
\* domain.  A password is given by how many characters of each class it has.
Ann == <<"ann">>
AnnMail == <<"ann", "@", "x.io">>
BobMail == <<"bob", "@", "x.io">>
BadMail == <<"bob", "x.io">>
EmptyText == << >>
CharClasses == {"upper", "lower", "digit", "space", "symbol"}
Chars(u, l, d, sp, sy) == [upper |-> u, lower |-> l, digit |-> d, space |-> sp, symbol |-> sy]
PasswordLen(pw) == pw.upper + pw.lower + pw.digit + pw.space + pw.symbol
EmptyPassword == Chars(0, 0, 0, 0, 0)
\* the value of an argument that was not supplied
NotSupplied == [supplied |-> FALSE]

MinPasswordLength == 8
MaxPasswordLength == 50

\* the rows a validator reads are [username, email]
username_validator(username, db) ==
    IF \E row \in db : row.username = username
    THEN <<"Username used before!">> ELSE << >>

\* pydantic EmailStr: a local part, one "@" and a domain
EmailStr(email) == Len(email) = 3 /\ email[2] = "@" /\ email[1] # "@" /\ email[3] # "@"

email_validator(email, db) ==
    IF ~EmailStr(email) THEN <<"value is not a valid email address">>
    ELSE IF \E row \in db : row.email = email
    THEN <<"Email used before!">> ELSE << >>

password_validator(password) ==
    (IF PasswordLen(password) < MinPasswordLength
       THEN <<"Password must be at least 8 characters.">> ELSE << >>)
    \o (IF PasswordLen(password) > MaxPasswordLength
       THEN <<"Password must not exceed 50 characters.">> ELSE << >>)
    \o (IF password.upper = 0
       THEN <<"Password must contain at least one uppercase letter.">> ELSE << >>)
    \o (IF password.lower = 0
       THEN <<"Password must contain at least one lowercase letter.">> ELSE << >>)
    \o (IF password.digit = 0
       THEN <<"Password must contain at least one digit.">> ELSE << >>)
    \o (IF password.space # 0
       THEN <<"Password must not contain spaces.">> ELSE << >>)
    \o (IF password.symbol = 0
       THEN <<"Password must contain at least one symbol.">> ELSE << >>)

password_2_validator(x, y) ==
    IF x # y THEN <<"Please make sure to use the same password">> ELSE << >>

\* Python's truth value of the argument password_2: None and "" are false
Truthy(password_2) == password_2 # NotSupplied /\ PasswordLen(password_2) > 0

\* the dict of errors: a key is set only when its list is not empty, and the
\* confirmation is compared only when it is truthy
user_validation(username, email, password, password_2, db) ==
    LET username_err == username_validator(username, db)
        email_err == email_validator(email, db)
        password_err == password_validator(password)
        password_2_err == IF Truthy(password_2)
                          THEN password_2_validator(password, password_2) ELSE << >>
        all == [username |-> username_err, email |-> email_err,
                password |-> password_err, password_2 |-> password_2_err]
    IN  [k \in {key \in DOMAIN all : all[key] # << >>} |-> all[k]]

ValidationUsernames == {Ann, BobMail, EmptyText}
ValidationEmails == {AnnMail, BobMail, BadMail}
ValidationPasswords ==
    {Chars(u, l, d, sp, sy) : u \in {0, 1}, l \in {0, 5, 47, 48}, d \in {0, 1},
                              sp \in {0, 1}, sy \in {0, 1}}
ValidationConfirmations ==
    {NotSupplied, EmptyPassword, Chars(1, 5, 1, 0, 1), Chars(1, 5, 1, 1, 1)}
ValidationDbs == {{}, {[username |-> Ann, email |-> AnnMail]}}

\* the call: the arguments are read and the dict returned
call_user_validation ==
    /\ verrors = [returned |-> FALSE]
    /\ verrors' = [returned |-> TRUE,
                   errors |-> user_validation(vform.username, vform.email, vform.password,
                                              vform.password_2, vdb)]
    /\ UNCHANGED <<vdb, vform>>
    /\ UNCHANGED NotValidation

ValidationInit ==
    /\ vdb \in ValidationDbs
    /\ vform \in [username : ValidationUsernames, email : ValidationEmails,
                  password : ValidationPasswords, password_2 : ValidationConfirmations]
    /\ verrors = [returned |-> FALSE]

\* no call of user_validation is under way
NoValidation ==
    /\ vdb = {}
    /\ vform = [username |-> EmptyText, email |-> EmptyText,
                password |-> EmptyPassword, password_2 |-> NotSupplied]
    /\ verrors = [returned |-> FALSE]

ValidationNext == call_user_validation

(***************************************************************************)
(* Claim about user_validation                                             *)
(***************************************************************************)
\* the rules of a password, each with the message of its violation
ViolatedRules(pw) ==
    {m \in {"Password must be at least 8 characters.",
            "Password must not exceed 50 characters.",
            "Password must contain at least one uppercase letter.",
            "Password must contain at least one lowercase letter.",
            "Password must contain at least one digit.",
            "Password must not contain spaces.",
            "Password must contain at least one symbol."} :
        \/ m = "Password must be at least 8 characters." /\ PasswordLen(pw) < 8
        \/ m = "Password must not exceed 50 characters." /\ PasswordLen(pw) > 50
        \/ m = "Password must contain at least one uppercase letter." /\ pw.upper = 0
        \/ m = "Password must contain at least one lowercase letter." /\ pw.lower = 0
        \/ m = "Password must contain at least one digit." /\ pw.digit = 0
        \/ m = "Password must not contain spaces." /\ pw.space > 0
        \/ m = "Password must contain at least one symbol." /\ pw.symbol = 0}

\* C7: user_validation returns key username iff the username is taken, key
\* email iff the email is invalid or (when valid) taken, key password iff a
\* password rule is violated, with one message for each violated rule, and
\* key password_2 iff a supplied confirmation differs from the password.
C7_AllKeysTogether ==
    verrors.returned =>
        LET e == verrors.errors
            keys == DOMAIN e
        IN  /\ "username" \in keys <=> \E row \in vdb : row.username = vform.username
            /\ "email" \in keys <=> \/ ~EmailStr(vform.email)
                                     \/ \E row \in vdb : row.email = vform.email
            /\ "password" \in keys <=> ViolatedRules(vform.password) # {}
            /\ "password" \in keys =>
                  /\ {e["password"][i] : i \in 1..Len(e["password"])} = ViolatedRules(vform.password)
                  /\ Len(e["password"]) = Cardinality(ViolatedRules(vform.password))
            /\ "password_2" \in keys <=> /\ vform.password_2 # NotSupplied
                                          /\ vform.password_2 # vform.password

(***************************************************************************)
(* Registration (page register, API create_user) and authenticate_user     *)
(***************************************************************************)
Strong == Chars(1, 5, 1, 0, 1)
Weak == Chars(0, 5, 0, 0, 0)
RegUsernames == {Ann, BobMail}
RegEmails == {AnnMail, BobMail, BadMail}
RegPasswords == {Strong, Weak}
\* the form of the page: its four fields (password_2 may be missing), and
\* whether it carries only fields user_validation has a parameter for
RegForms ==
    [username : RegUsernames, email : RegEmails, password : RegPasswords,
     password_2 : {NotSupplied, EmptyPassword, Strong}, known : {TRUE}]
    \cup {[username |-> Ann, email |-> AnnMail, password |-> Strong,
            password_2 |-> Strong, known |-> FALSE]}
\* the body of the API: CreateProfile
CreateProfiles == [username : RegUsernames, email : RegEmails, password : RegPasswords]

\* bcrypt: a hash carries its salt and a digest of salt and password;
\* verify recomputes the digest with the salt of the hash.  Every hash gets
\* a fresh salt: the number of the row it is made for.
bcrypt_hash(password, salt) ==
    [scheme |-> "bcrypt", salt |-> salt, digest |-> <<salt, password>>]
bcrypt_verify(password, hash) ==
    hash.scheme = "bcrypt" /\ hash.digest = <<hash.salt, password>>

\* unique=True of Profile.username and of Profile.email
ProfileUniqueViolationNone(username, email) == FALSE
ProfileUniqueViolation(username, email) ==
    \E row \in profiles : row.username = username \/ row.email = email

IdleUser == [pc |-> "idle", op |-> "none", username |-> EmptyText, email |-> EmptyText,
             password |-> EmptyPassword, outcome |-> "none"]
FinishUser(op, outcome) == [IdleUser EXCEPT !.pc = "done", !.op = op, !.outcome = outcome]
\* an accepted registration, with the password it was submitted with
Accepted(op, password) == [FinishUser(op, "ok") EXCEPT !.password = password]
FreeUser(s) == ureq[s].pc \in {"idle", "done"}
ValidatorRows == {[username |-> row.username, email |-> row.email] : row \in profiles}

\* register, up to db.add: validation (400 when the form does not fit the
\* parameters), the errors page, pop('password_2') and the hash
register_validate(s, form) ==
    /\ FreeUser(s)
    /\ ureq' = [ureq EXCEPT ![s] =
          IF ~form.known THEN FinishUser("register", "bad_request")
          ELSE IF DOMAIN user_validation(form.username, form.email, form.password,
                                         form.password_2, ValidatorRows) # {}
          THEN FinishUser("register", "errors")
          ELSE IF form.password_2 = NotSupplied
          THEN FinishUser("register", "server_error")
          ELSE [IdleUser EXCEPT !.pc = "commit", !.op = "register",
                                !.username = form.username, !.email = form.email,
                                !.password = form.password]]
    /\ UNCHANGED <<profiles, nextProfileId, authLog>>
    /\ UNCHANGED NotUsers

\* register, commit_db: the INSERT fails on a unique constraint (rollback, 500)
register_commit(s) ==
    /\ ureq[s].pc = "commit"
    /\ IF ProfileUniqueViolation(ureq[s].username, ureq[s].email)
       THEN /\ ureq' = [ureq EXCEPT ![s] = FinishUser("register", "commit_error")]
            /\ UNCHANGED <<profiles, nextProfileId>>
       ELSE /\ Cardinality(profiles) < MaxProfiles
            /\ profiles' = profiles \cup
                  {[id |-> nextProfileId, username |-> ureq[s].username,
                    email |-> ureq[s].email,
                    password |-> bcrypt_hash(ureq[s].password, nextProfileId)]}
            /\ nextProfileId' = nextProfileId + 1
            /\ ureq' = [ureq EXCEPT ![s] = Accepted("register", ureq[s].password)]
    /\ UNCHANGED authLog
    /\ UNCHANGED NotUsers

\* create_user: no validation; the password is hashed and the row committed
create_user(s, user) ==
    /\ FreeUser(s)
    /\ IF ProfileUniqueViolation(user.username, user.email)
       THEN /\ ureq' = [ureq EXCEPT ![s] = FinishUser("create_user", "commit_error")]
            /\ UNCHANGED <<profiles, nextProfileId>>
       ELSE /\ Cardinality(profiles) < MaxProfiles
            /\ profiles' = profiles \cup
                  {[id |-> nextProfileId, username |-> user.username,
                    email |-> user.email,
                    password |-> bcrypt_hash(user.password, nextProfileId)]}
            /\ nextProfileId' = nextProfileId + 1
            /\ ureq' = [ureq EXCEPT ![s] = Accepted("create_user", user.password)]
    /\ UNCHANGED authLog
    /\ UNCHANGED NotUsers

\* authenticate_user: the rows whose username or email is the identifier;
\* first() takes whichever the database returns first; False is NoProfile
NoProfile == 0
authenticate_user(username_or_email, password) ==
    LET found == {row \in profiles : row.username = username_or_email
                                      \/ row.email = username_or_email}
    IN  /\ IF found = {}
           THEN authLog' = [identifier |-> username_or_email, password |-> password,
                            result |-> NoProfile]
           ELSE \E user \in found :
                   authLog' = [identifier |-> username_or_email, password |-> password,
                               result |-> IF bcrypt_verify(password, user.password)
                                          THEN user.id ELSE NoProfile]
        /\ UNCHANGED <<profiles, nextProfileId, ureq>>
        /\ UNCHANGED NotUsers

UserInit ==
    /\ profiles = {}
    /\ nextProfileId = 1
    /\ ureq = [s \in Slots |-> IdleUser]
    /\ authLog = [identifier |-> EmptyText, password |-> EmptyPassword, result |-> NoProfile]

UserNext ==
    \/ \E s \in Slots, form \in RegForms : register_validate(s, form)
    \/ \E s \in Slots : register_commit(s)
    \/ \E s \in Slots, user \in CreateProfiles : create_user(s, user)
    \/ \E i \in RegUsernames \cup {AnnMail}, pw \in RegPasswords : authenticate_user(i, pw)

(***************************************************************************)
(* Claims about registration and authentication                            *)
(***************************************************************************)
\* table profiles got exactly one new row, whose password is a hash that
\* verifies against pw
OneProfileAdded(pw) ==
    \E row \in profiles' :
        /\ row \notin profiles
        /\ profiles' = profiles \cup {row}
        /\ row.password # pw
        /\ bcrypt_verify(pw, row.password)

\* C6: no two profiles share a username or an email, whatever registrations
\* of the page and of the API interleave; a rejected registration leaves
\* table profiles unchanged and an accepted one adds exactly one row, whose
\* password is a hash that verifies against the submitted password.
C6_RegistrationUnique ==
    /\ [](\A p, q \in profiles :
             p # q => p.username # q.username /\ p.email # q.email)
    /\ [][/\ \A s \in Slots :
                (ureq'[s] # ureq[s] /\ ureq'[s].outcome # "ok") => profiles' = profiles
          /\ \A s \in Slots :
                (ureq'[s] # ureq[s] /\ ureq'[s].outcome = "ok")
                => OneProfileAdded(ureq'[s].password)
          /\ profiles' # profiles
                => \E s \in Slots : /\ ureq'[s].outcome = "ok"
                                    /\ OneProfileAdded(ureq'[s].password)]_vars

\* two registrations of the page ran side by side: one was accepted, the
\* other failed at its commit, and an API registration was accepted too
C6_Witness ==
    /\ Cardinality(profiles) = 2
    /\ \E s1, s2 \in Slots :
          /\ ureq[s1] = FinishUser("register", "commit_error")
          /\ ureq[s2] = Accepted("create_user", Weak)
    /\ \E row \in profiles : row.password = bcrypt_hash(Strong, row.id)
    /\ \E row \in profiles : row.password = bcrypt_hash(Weak, row.id)

\* C8: authenticate_user returns profile p when the identifier is p's
\* username or p's email and the password is p's, whatever other profiles
\* exist, and returns no profile when no profile the identifier designates
\* has the password.
C8_AuthenticateDesignated ==
    [][\A i \in RegUsernames \cup {AnnMail}, pw \in RegPasswords :
          authenticate_user(i, pw)
          => /\ \A p \in profiles :
                   ((i = p.username \/ i = p.email) /\ bcrypt_verify(pw, p.password))
                   => authLog'.result = p.id
             /\ (~ \E p \in profiles : /\ i = p.username \/ i = p.email
                                       /\ bcrypt_verify(pw, p.password))
                   => authLog'.result = NoProfile]_vars

(***************************************************************************)
(* Tokens: gen_token, get_current_user, refresh_access_token               *)
(***************************************************************************)
\* minutes
ACCESS_TOKEN_EXPIRE_TIMEDELTA == 300
REFRESH_TOKEN_EXPIRE_TIMEDELTA == 1440

\* the profiles tokens are issued for: str(profile_id) and username; the
\* schema CreateProfile and username_validator both admit the empty username
TokenUsers == {[user_id |-> "1", username |-> "ann"], [user_id |-> "2", username |-> ""]}

\* a token: what signed it and the claims of its payload
gen_token(user_id, username, expires_delta) ==
    [sig |-> "SECRET_KEY", sub |-> username, id |-> user_id, exp |-> now + expires_delta]
create_access_token(user_id, username) ==
    gen_token(user_id, username, ACCESS_TOKEN_EXPIRE_TIMEDELTA)
create_refresh_token(user_id, username) ==
    gen_token(user_id, username, REFRESH_TOKEN_EXPIRE_TIMEDELTA)

\* tokens that gen_token did not make: signed with another key, not a JWT
\* at all, or signed with the key but short of a claim
OtherTokens ==
    [sig : {"SECRET_KEY", "other key", "malformed"}, sub : {Absent, "ann"},
     id : {Absent, "1"}, exp : {ACCESS_TOKEN_EXPIRE_TIMEDELTA}]

\* jwt.decode: JWTError for a token that is malformed or not signed with the
\* key, and for one whose exp is less than the current time
JWTError(token) == token.sig # "SECRET_KEY" \/ token.exp < now

\* payload.get(claim) is None without the claim; not x holds of None and ""
Falsy(x) == x = Absent \/ x = ""

Unauthorized == [status |-> 401, detail |-> "Could not validate credentials"]

get_current_user(token) ==
    IF JWTError(token) THEN Unauthorized
    ELSE IF Falsy(token.sub) \/ Falsy(token.id) THEN Unauthorized
    ELSE [status |-> 200, username |-> token.sub, user_id |-> token.id]

\* login: both tokens are issued; the client goes on with one of them
login(user, kind) ==
    /\ now <= MaxIssueTime
    /\ held' = [token |-> IF kind = "access"
                          THEN create_access_token(user.user_id, user.username)
                          ELSE create_refresh_token(user.user_id, user.username),
                kind |-> kind, issued |-> now]
    /\ UNCHANGED <<now, tokenOutcome>>
    /\ UNCHANGED NotTokens

\* a client presents a token the server did not issue
present_other_token(token) ==
    /\ held' = [token |-> token, kind |-> "other", issued |-> 0]
    /\ UNCHANGED <<now, tokenOutcome>>
    /\ UNCHANGED NotTokens

\* a route that depends on get_current_user is requested with the token
call_get_current_user ==
    /\ tokenOutcome' = get_current_user(held.token)
    /\ UNCHANGED <<now, held>>
    /\ UNCHANGED NotTokens

\* POST /refresh: a new access token for the user of an accepted token
refresh_access_token ==
    /\ now <= MaxIssueTime
    /\ LET user == get_current_user(held.token)
       IN  /\ tokenOutcome' = user
           /\ held' = IF user.status = 200
                      THEN [token |-> create_access_token(user.user_id, user.username),
                            kind |-> "access", issued |-> now]
                      ELSE held
    /\ UNCHANGED now
    /\ UNCHANGED NotTokens

\* a minute passes
Tick ==
    /\ now < MaxTime
    /\ now' = now + 1
    /\ UNCHANGED <<held, tokenOutcome>>
    /\ UNCHANGED NotTokens

TokenInit ==
    /\ now = 0
    /\ held = [token |-> [sig |-> "malformed", sub |-> Absent, id |-> Absent,
                          exp |-> ACCESS_TOKEN_EXPIRE_TIMEDELTA],
               kind |-> "other", issued |-> 0]
    /\ tokenOutcome = [status |-> 0]

TokenNext ==
    \/ \E user \in TokenUsers, kind \in {"access", "refresh"} : login(user, kind)
    \/ \E token \in OtherTokens : present_other_token(token)
    \/ call_get_current_user
    \/ refresh_access_token
    \/ Tick

(***************************************************************************)
(* Claim about get_current_user                                            *)
(***************************************************************************)
\* C9: get_current_user accepts a token iff it is signed with the server
\* secret, carries both the sub and the id claim, and the current time is
\* before its expiry, which is issue time + 300 minutes for an access token
\* and issue time + 1440 minutes for a refresh token; every rejected token
\* yields the same Unauthorized outcome.
C9_TokenAccepted ==
    [][call_get_current_user
       => LET token == held.token
          IN  /\ tokenOutcome'.status = 200
                    <=> /\ token.sig = "SECRET_KEY"
                        /\ token.sub # Absent
                        /\ token.id # Absent
                        /\ now < token.exp
              /\ held.kind = "access" => token.exp = held.issued + 300
              /\ held.kind = "refresh" => token.exp = held.issued + 1440
              /\ tokenOutcome'.status # 200 => tokenOutcome' = Unauthorized]_vars

(***************************************************************************)
(* Sessions: the cookie of the page routes, logout, and the tokens of      *)
(* reset_password and change_password                                      *)
(***************************************************************************)
NoToken == [sig |-> "none", sub |-> Absent, id |-> Absent, exp |-> 0]
NoUser == [status |-> 0]

\* BasicAuthBackend.authenticate: no user without a cookie or with a token
\* get_current_user refuses, else the user of the token
authenticate(token) ==
    IF token = NoToken THEN NoUser
    ELSE IF get_current_user(token).status # 200 THEN NoUser
    ELSE get_current_user(token)

Outcome(route, user) == [route |-> route, user |-> user]

\* login (page) with good credentials: get_login_response sets the cookie
get_login_response(user) ==
    /\ now <= MaxIssueTime
    /\ cookie' = create_access_token(user.user_id, user.username)
    /\ logged_out' = NoToken
    /\ authOutcome' = Outcome("login", NoUser)
    /\ UNCHANGED <<stored_password, cresponse>>
    /\ UNCHANGED tokenVars
    /\ UNCHANGED NotSession

\* logout: @requires('authenticated') redirects a visitor to the login
\* page; for a user the response deletes the cookie
logout ==
    /\ authOutcome' = Outcome("logout", authenticate(cookie))
    /\ IF authenticate(cookie) = NoUser
       THEN UNCHANGED <<cookie, logged_out>>
       ELSE cookie' = NoToken /\ logged_out' = cookie
    /\ UNCHANGED <<stored_password, cresponse>>
    /\ UNCHANGED tokenVars
    /\ UNCHANGED NotSession

\* the tokens a client can send: the one in the cookie jar, the one it was
\* logged in with before the logout, or none
Presentable == {cookie, logged_out, NoToken}

\* a request of a page route with the token as the access_token cookie
page_request(token) ==
    /\ token \in Presentable
    /\ authOutcome' = Outcome("page", authenticate(token))
    /\ UNCHANGED <<cookie, logged_out, stored_password, cresponse>>
    /\ UNCHANGED tokenVars
    /\ UNCHANGED NotSession

\* a request of an API route with the token as the bearer of the
\* Authorization header: user_dependency is get_current_user
api_request(token) ==
    /\ token \in Presentable
    /\ authOutcome' = Outcome("api", get_current_user(token))
    /\ UNCHANGED <<cookie, logged_out, stored_password, cresponse>>
    /\ UNCHANGED tokenVars
    /\ UNCHANGED NotSession

\* datetime.timedelta(hours=2), in minutes
RESET_TOKEN_EXPIRE_TIMEDELTA == 120

\* reset_password (POST) with the email of a profile: the token of the mail
reset_password(user) ==
    /\ now <= MaxIssueTime
    /\ held' = [token |-> gen_token(user.user_id, user.username, RESET_TOKEN_EXPIRE_TIMEDELTA),
                kind |-> "reset", issued |-> now]
    /\ UNCHANGED <<now, tokenOutcome>>
    /\ UNCHANGED sessionVars
    /\ UNCHANGED NotSession

\* change_password (POST) with the token of the path: get_current_user, the
\* form's password validated, hashed and stored for the user of the token
change_password(form_password) ==
    LET user == get_current_user(held.token)
    IN  /\ IF user.status # 200
           THEN cresponse' = [status |-> 401, errors |-> << >>] /\ UNCHANGED stored_password
           ELSE IF password_validator(form_password) # << >>
           THEN /\ cresponse' = [status |-> 200, errors |-> password_validator(form_password)]
                /\ UNCHANGED stored_password
           ELSE /\ cresponse' = [status |-> 200, errors |-> << >>]
                /\ stored_password' = [stored_password EXCEPT ![user.user_id] =
                                           bcrypt_hash(form_password, 1)]
        /\ UNCHANGED <<cookie, logged_out, authOutcome>>
        /\ UNCHANGED tokenVars
        /\ UNCHANGED NotSession

SessionInit ==
    /\ cookie = NoToken
    /\ logged_out = NoToken
    /\ authOutcome = Outcome("none", NoUser)
    /\ stored_password = [u \in {user.user_id : user \in TokenUsers} |-> bcrypt_hash(Weak, 0)]
    /\ cresponse = [status |-> 0, errors |-> << >>]

SessionNext ==
    \/ \E user \in TokenUsers : get_login_response(user)
    \/ logout
    \/ \E token \in Presentable : page_request(token)
    \/ \E token \in Presentable : api_request(token)
    \/ Tick

PurposeNext ==
    \/ \E user \in TokenUsers, kind \in {"access", "refresh"} : login(user, kind)
    \/ \E user \in TokenUsers : reset_password(user)
    \/ refresh_access_token
    \/ \E form_password \in RegPasswords : change_password(form_password)
    \/ Tick

\* C21: once a logout has completed, the access token that authenticated it
\* is accepted as identity by no later page request (cookie) and no later
\* API request (bearer header), until the user logs in again.
C21_LogoutInvalidatesToken ==
    [][\A token \in {logged_out} \ {NoToken} :
          (page_request(token) \/ api_request(token))
          => authOutcome'.user.status # 200]_vars

\* C29: the refresh endpoint issues an access token only for a token that
\* was issued as a refresh token, and change_password changes a password
\* only for a token that reset_password issued, and then the password of
\* the user it was issued for: an access token is refused by both.
C29_TokensBoundToPurpose ==
    [][/\ (refresh_access_token /\ tokenOutcome'.status = 200) => held.kind = "refresh"
       /\ \A form_password \in RegPasswords :
             (change_password(form_password) /\ stored_password' # stored_password)
             => /\ held.kind = "reset"
                /\ \A u \in DOMAIN stored_password :
                      stored_password'[u] # stored_password[u] => u = held.token.id]_vars

(***************************************************************************)
(* Messages: a row per message, with a reference to the sender's and one   *)
(* to the recipient's profile, each of which may be NULL                   *)
(***************************************************************************)
\* Message.sender of a message sent by a non-user, and a reference that
\* delete_message has cleared
NullRef == 0
MessageIds == 1..MaxMessages

RowsOf(m) == {r \in messages : r.id = m}
MessageReply(op, u, m, st) == [op |-> op, actor |-> u, message |-> m, status |-> st]

\* create_message (page): sender is the profile of the authenticated user,
\* None for a visitor; recipient is the profile of the path
create_message(sender, recipient) ==
    /\ nextMessageId <= MaxMessages
    /\ messages' = messages \cup {[id |-> nextMessageId, sender |-> sender,
                                   recipient |-> recipient, is_read |-> FALSE]}
    /\ nextMessageId' = nextMessageId + 1
    /\ mresponse' = MessageReply("create_message", sender, nextMessageId, 302)
    /\ UNCHANGED mreq
    /\ UNCHANGED NotMessages

\* the select of open_message: the row of that id of which user is the
\* recipient or the sender
Selected(m, user) == {r \in RowsOf(m) : r.recipient = user \/ r.sender = user}

MarkReadByAnyone(m, user) ==
    {IF r.id = m THEN [r EXCEPT !.is_read = TRUE] ELSE r : r \in messages}
\* mes.is_read = True and the commit, when user is the recipient
MarkRead(m, user) ==
    {IF r.id = m /\ r.recipient = user THEN [r EXCEPT !.is_read = TRUE] ELSE r : r \in messages}

open_message(user, m) ==
    /\ IF Selected(m, user) = {}
       THEN /\ mresponse' = MessageReply("open_message", user, m, 404)
            /\ UNCHANGED messages
       ELSE /\ messages' = MarkRead(m, user)
            /\ mresponse' = MessageReply("open_message", user, m, 200)
    /\ UNCHANGED <<nextMessageId, mreq>>
    /\ UNCHANGED NotMessages

IdleDelete == [pc |-> "idle", user |-> NullRef,
               mes |-> [id |-> 1, sender |-> NullRef, recipient |-> NullRef, is_read |-> FALSE]]

\* delete_message up to the return of open_message: the session holds the row
\* as it has read it
delete_message_open(s, user, m) ==
    /\ mreq[s].pc = "idle"
    /\ IF Selected(m, user) = {}
       THEN /\ mresponse' = MessageReply("delete_message", user, m, 404)
            /\ UNCHANGED <<messages, mreq>>
       ELSE LET mes == CHOOSE r \in Selected(m, user) : TRUE
                read == IF mes.recipient = user THEN [mes EXCEPT !.is_read = TRUE] ELSE mes
            IN  /\ messages' = MarkRead(m, user)
                /\ mreq' = [mreq EXCEPT ![s] = [pc |-> "opened", user |-> user, mes |-> read]]
                /\ UNCHANGED mresponse
    /\ UNCHANGED nextMessageId
    /\ UNCHANGED NotMessages

\* whether neither reference is left on the session's object
BothCleared(sender, recipient) == sender = NullRef /\ recipient = NullRef

\* the rest of delete_message: the references of user are set to None on the
\* session's object; with neither left the row is deleted, otherwise the
\* commit writes the columns that were set (an UPDATE of a row that is gone
\* matches nothing, the flush raises and commit_db answers 500)
delete_message_commit(s) ==
    LET user == mreq[s].user
        mes == mreq[s].mes
        sender == IF mes.sender = user THEN NullRef ELSE mes.sender
        recipient == IF mes.recipient = user THEN NullRef ELSE mes.recipient
    IN  /\ mreq[s].pc = "opened"
        /\ IF BothCleared(sender, recipient)
           THEN /\ messages' = messages \ RowsOf(mes.id)
                /\ mresponse' = MessageReply("delete_message", user, mes.id, 204)
           ELSE IF RowsOf(mes.id) = {}
           THEN /\ UNCHANGED messages
                /\ mresponse' = MessageReply("delete_message", user, mes.id, 500)
           ELSE /\ messages' = {IF r.id = mes.id
                                 THEN [r EXCEPT !.sender = IF mes.sender = user THEN NullRef ELSE @,
                                                !.recipient = IF mes.recipient = user THEN NullRef ELSE @]
                                 ELSE r : r \in messages}
                /\ mresponse' = MessageReply("delete_message", user, mes.id, 204)
        /\ mreq' = [mreq EXCEPT ![s] = IdleDelete]
        /\ UNCHANGED nextMessageId
        /\ UNCHANGED NotMessages

MessageInit ==
    /\ messages = {}
    /\ nextMessageId = 1
    /\ mreq = [s \in Slots |-> IdleDelete]
    /\ mresponse = MessageReply("none", NullRef, 1, 0)

MessageNext ==
    \/ \E sender \in Users \cup {NullRef}, recipient \in Users : create_message(sender, recipient)
    \/ \E user \in Users, m \in MessageIds : open_message(user, m)
    \/ \E s \in Slots, user \in Users, m \in MessageIds : delete_message_open(s, user, m)
    \/ \E s \in Slots : delete_message_commit(s)

\* C14: delete_message of a participant clears that participant's reference
\* alone, and the row is removed exactly when neither a sender nor a
\* recipient reference remains: every Message row that is stored still has
\* a sender or a recipient who can retrieve it.
C14_RowHasReference ==
    \A r \in messages : r.sender # NullRef \/ r.recipient # NullRef

\* user is the sender or the recipient of message m
Participant(m, user) == \E r \in RowsOf(m) : r.sender = user \/ r.recipient = user

\* C27: open_message returns a message only to its sender or its recipient
\* (NotFound for anyone else) and sets is_read exactly when the opener is the
\* recipient, leaving it as it is when the sender opens; and whatever is sent,
\* opened and deleted, is_read of a message never goes from true back to false.
C27_OpenMessage ==
    /\ [][\A user \in Users, m \in MessageIds :
            open_message(user, m)
            => IF Participant(m, user)
               THEN /\ mresponse'.status = 200
                    /\ {r.id : r \in messages'} = {r.id : r \in messages}
                    /\ \A r \in messages : \E n \in messages' :
                          /\ n.id = r.id /\ n.sender = r.sender /\ n.recipient = r.recipient
                          /\ n.is_read = (r.is_read \/ (r.id = m /\ r.recipient = user))
               ELSE /\ mresponse'.status = 404
                    /\ messages' = messages]_vars
    /\ [][\A r \in messages, n \in messages' : (n.id = r.id /\ r.is_read) => n.is_read]_vars

\* The sender, who is not the recipient, has opened a message that the
\* recipient had read.
C27_Witness ==
    /\ mresponse.op = "open_message" /\ mresponse.status = 200
    /\ \E r \in RowsOf(mresponse.message) :
          r.sender = mresponse.actor /\ r.recipient # mresponse.actor /\ r.is_read

(***************************************************************************)
(* Uploaded images: validation, the file on disk, the stored path and the  *)
(* removal of the file that was replaced                                   *)
(***************************************************************************)
\* a path: what stands before 'images/...' and the rest
Path(prefix, rest) == [prefix |-> prefix, rest |-> rest]
\* Profile.profile_image and Project.featured_image default to this
DefaultPath == Path("/static/", "images/default.jpg")
NoRow == Path("", "no row")
NoRemove == Path("", "none")
FileNames == <<"images/date/f1.jpg", "images/date/f2.jpg">>

MAX_FILE_SIZE == 10 * 1024 * 1024
ALLOWED_EXTENSIONS == {"png", "jpg", "jpeg", "gif"}

\* str.lower(), and the folding of case by ilike, of the strings in use
lower(str) ==
    CASE str = "JPG" -> "jpg"
      [] str = "A" -> "a"
      [] str = "B" -> "b"
      [] OTHER -> str

\* a file name is its parts between the dots
allowed_file(filename) ==
    Len(filename) > 1 /\ lower(filename[Len(filename)]) \in ALLOWED_EXTENSIONS

\* Image.open reads the header of the data, convert("RGB") decodes them:
\* "garbage" has no header PIL knows (Image.open raises an IOError),
\* "truncated" has a good header and undecodable data (convert raises OSError)
Contents == {"image", "truncated", "garbage"}
Uploads == [filename : {<<"a", "jpg">>, <<"a", "JPG">>, <<"a", "exe">>, <<"a">>},
            size : {MAX_FILE_SIZE, MAX_FILE_SIZE + 1},
            content : Contents]

\* save_and_compress_image up to its return or its exception: the status,
\* whether os.makedirs has run, and the file that was written
Saved(image, n) ==
    IF ~allowed_file(image.filename)
    THEN [status |-> 400, detail |-> "Invalid image extension", mkdir |-> FALSE, file |-> NoRemove]
    ELSE IF image.size > MAX_FILE_SIZE
    THEN [status |-> 400, detail |-> "File size exceeds the maximum limit of 10 MB",
          mkdir |-> FALSE, file |-> NoRemove]
    ELSE IF image.content = "garbage"
    THEN [status |-> 400, detail |-> "Invalid image file", mkdir |-> TRUE, file |-> NoRemove]
    ELSE IF image.content = "truncated"
    THEN [status |-> 500, detail |-> "OSError", mkdir |-> TRUE, file |-> NoRemove]
    ELSE [status |-> 200, detail |-> "saved", mkdir |-> TRUE,
          file |-> Path("./static/", FileNames[n])]

\* users/utils.py returns file_path as it is
save_and_compress_image(image, n) == Saved(image, n)
\* apis/users/utils.py returns file_path.replace('./static/', '')
StripStatic(path) == IF path.prefix = "./static/" THEN Path("", path.rest) ELSE path

os_remove(files, path) == files \ {path}

\* the handler's answer, and what save_and_compress_image returned or raised
ImageReply(op, st, raised, detail) ==
    [op |-> op, status |-> st, raised |-> raised, detail |-> detail]

\* the part the four replacing handlers share: the call of
\* save_and_compress_image, and on success the new file
Upload(image) ==
    LET r == save_and_compress_image(image, nextFile)
    IN  /\ dayDir' = (dayDir \/ r.mkdir)
        /\ nextFile' = IF r.status = 200 THEN nextFile + 1 ELSE nextFile

\* update_profile_image (JSON): exceptions pass through; committed tells
\* whether the commit of the new path succeeds
update_profile_image(image, committed) ==
    LET r == save_and_compress_image(image, nextFile)
        old_image_path == profile_image
    IN  /\ nextFile <= MaxFiles
        /\ profile_image # NoRow
        /\ Upload(image)
        /\ IF r.status # 200
           THEN /\ iresponse' = ImageReply("update_profile_image", r.status, r.status, r.detail)
                /\ removed' = NoRemove
                /\ UNCHANGED <<profile_image, disk>>
           ELSE IF ~committed
           THEN /\ iresponse' = ImageReply("update_profile_image", 500, 200, "commit failed")
                /\ removed' = NoRemove
                /\ disk' = disk \cup {r.file}
                /\ UNCHANGED profile_image
           ELSE /\ profile_image' = r.file
                /\ iresponse' = ImageReply("update_profile_image", 200, 200, r.detail)
                /\ IF old_image_path \notin {Path("/", "images/default.jpg"),
                                              Path("/", "images/user-default.png")}
                   THEN removed' = old_image_path
                        /\ disk' = os_remove(disk \cup {r.file}, old_image_path)
                   ELSE removed' = NoRemove /\ disk' = disk \cup {r.file}
        /\ UNCHANGED featured_image
        /\ UNCHANGED NotImages

\* remove_old_image of render/utils.py
remove_old_image(files, old_image_path) ==
    IF old_image_path \notin {Path("./static/", "images/default.jpg"),
                              Path("./static/", "images/user-default.png")}
    THEN [removed |-> old_image_path, disk |-> os_remove(files, old_image_path)]
    ELSE [removed |-> NoRemove, disk |-> files]

\* edit_profile_image (page): an HTTPException renders the form with its
\* detail, any other exception passes through
edit_profile_image(image, committed) ==
    LET r == save_and_compress_image(image, nextFile)
        old_image_path == profile_image
        rm == remove_old_image(disk \cup {r.file}, old_image_path)
    IN  /\ nextFile <= MaxFiles
        /\ profile_image # NoRow
        /\ Upload(image)
        /\ IF r.status # 200
           THEN /\ iresponse' = ImageReply("edit_profile_image", IF r.status = 400 THEN 200 ELSE r.status,
                                         r.status, r.detail)
                /\ removed' = NoRemove
                /\ UNCHANGED <<profile_image, disk>>
           ELSE IF ~committed
           THEN /\ iresponse' = ImageReply("edit_profile_image", 500, 200, "commit failed")
                /\ removed' = NoRemove
                /\ disk' = disk \cup {r.file}
                /\ UNCHANGED profile_image
           ELSE /\ profile_image' = StripStatic(r.file)
                /\ iresponse' = ImageReply("edit_profile_image", 302, 200, r.detail)
                /\ removed' = rm.removed
                /\ disk' = rm.disk
        /\ UNCHANGED featured_image
        /\ UNCHANGED NotImages

\* Update_project_image (JSON), called by the owner
Update_project_image_file(image, committed) ==
    LET r == save_and_compress_image(image, nextFile)
        old_image_path == featured_image
    IN  /\ nextFile <= MaxFiles
        /\ Upload(image)
        /\ IF r.status # 200
           THEN /\ iresponse' = ImageReply("Update_project_image", r.status, r.status, r.detail)
                /\ removed' = NoRemove
                /\ UNCHANGED <<featured_image, disk>>
           ELSE IF ~committed
           THEN /\ iresponse' = ImageReply("Update_project_image", 500, 200, "commit failed")
                /\ removed' = NoRemove
                /\ disk' = disk \cup {r.file}
                /\ UNCHANGED featured_image
           ELSE /\ featured_image' = StripStatic(r.file)
                /\ iresponse' = ImageReply("Update_project_image", 200, 200, r.detail)
                /\ IF old_image_path \notin {Path("", "images/default.jpg"),
                                              Path("", "images/user-default.png")}
                   THEN removed' = old_image_path
                        /\ disk' = os_remove(disk \cup {r.file}, old_image_path)
                   ELSE removed' = NoRemove /\ disk' = disk \cup {r.file}
        /\ UNCHANGED profile_image
        /\ UNCHANGED NotImages

\* update_project (page) with a featured image in the form:
\* handle_project_data saves the image, then remove_old_image, the new path
\* on the session's object and, last, commit_db
update_project_file(image, committed) ==
    LET r == save_and_compress_image(image, nextFile)
        rm == remove_old_image(disk \cup {r.file}, featured_image)
    IN  /\ nextFile <= MaxFiles
        /\ Upload(image)
        /\ IF r.status # 200
           THEN /\ iresponse' = ImageReply("update_project", IF r.status = 400 THEN 200 ELSE r.status,
                                         r.status, r.detail)
                /\ removed' = NoRemove
                /\ UNCHANGED <<featured_image, disk>>
           ELSE /\ featured_image' = IF committed THEN StripStatic(r.file) ELSE featured_image
                /\ iresponse' = IF committed
                                THEN ImageReply("update_project", 302, 200, r.detail)
                                ELSE ImageReply("update_project", 500, 200, "commit failed")
                /\ removed' = rm.removed
                /\ disk' = rm.disk
        /\ UNCHANGED profile_image
        /\ UNCHANGED NotImages

\* delete_user (JSON): the image file, then the row
delete_user ==
    /\ profile_image # NoRow
    /\ IF profile_image # Path("/static/", "images/default.jpg")
       THEN removed' = profile_image /\ disk' = os_remove(disk, profile_image)
       ELSE removed' = NoRemove /\ UNCHANGED disk
    /\ profile_image' = NoRow
    /\ iresponse' = ImageReply("delete_user", 204, 0, "deleted")
    /\ UNCHANGED <<featured_image, dayDir, nextFile>>
    /\ UNCHANGED NotImages

\* delete_project (JSON), called by the owner: the image file, then
\* db.delete(user) of the token's dict, which raises
delete_project_file ==
    /\ IF featured_image # Path("/static/", "images/default.jpg")
       THEN removed' = featured_image /\ disk' = os_remove(disk, featured_image)
       ELSE removed' = NoRemove /\ UNCHANGED disk
    /\ iresponse' = ImageReply("delete_project", 500, 0, "UnmappedInstanceError")
    /\ UNCHANGED <<profile_image, featured_image, dayDir, nextFile>>
    /\ UNCHANGED NotImages

\* a registration after the profile was deleted: the column's default
register_default_image ==
    /\ profile_image = NoRow
    /\ profile_image' = DefaultPath
    /\ removed' = NoRemove
    /\ iresponse' = ImageReply("register", 201, 0, "created")
    /\ UNCHANGED <<featured_image, disk, dayDir, nextFile>>
    /\ UNCHANGED NotImages

ImageInit ==
    /\ profile_image = DefaultPath
    /\ featured_image = DefaultPath
    /\ disk = {}
    /\ dayDir = FALSE
    /\ removed = NoRemove
    /\ nextFile = 1
    /\ iresponse = ImageReply("none", 0, 0, "none")

ImageNext ==
    \/ \E image \in Uploads, committed \in BOOLEAN : update_profile_image(image, committed)
    \/ \E image \in Uploads, committed \in BOOLEAN : edit_profile_image(image, committed)
    \/ \E image \in Uploads, committed \in BOOLEAN : Update_project_image_file(image, committed)
    \/ \E image \in Uploads, committed \in BOOLEAN : update_project_file(image, committed)
    \/ delete_user
    \/ delete_project_file
    \/ register_default_image

\* an upload that fails a check, and the detail of the first check it fails
Invalid(image) ==
    ~allowed_file(image.filename) \/ image.size > MAX_FILE_SIZE \/ image.content # "image"
FirstFailure(image) ==
    IF ~allowed_file(image.filename) THEN "Invalid image extension"
    ELSE IF image.size > MAX_FILE_SIZE THEN "File size exceeds the maximum limit of 10 MB"
    ELSE "Invalid image file"
Replacement(image) ==
    \E committed \in BOOLEAN :
        \/ update_profile_image(image, committed)
        \/ edit_profile_image(image, committed)
        \/ Update_project_image_file(image, committed)
        \/ update_project_file(image, committed)

\* C15: an upload is checked for its extension, then its size, then for
\* data that decode as an image; the first check that fails yields a
\* BadRequest with its detail before anything is written to disk, and the
\* handler leaves the stored image path unchanged and removes no file.
C15_InvalidUploadRejected ==
    [][\A image \in Uploads :
          (Invalid(image) /\ Replacement(image))
          => /\ iresponse'.raised = 400
             /\ iresponse'.detail = FirstFailure(image)
             /\ UNCHANGED <<disk, dayDir>>
             /\ UNCHANGED <<profile_image, featured_image>>
             /\ removed' = NoRemove]_vars

\* C16: no replacement of an image and no deletion of a profile or project
\* ever passes the default placeholder path to os.remove.
C16_DefaultNeverRemoved ==
    removed # DefaultPath

\* a swap of an image by one of the four handlers, with an upload that
\* save_and_compress_image accepts
Swap(image, committed) ==
    /\ ~Invalid(image)
    /\ \/ update_profile_image(image, committed)
       \/ edit_profile_image(image, committed)
       \/ Update_project_image_file(image, committed)
       \/ update_project_file(image, committed)

\* C26: in every image swap the previous file is handed to os.remove only
\* after the commit that stores the new path has succeeded: when the commit
\* fails nothing is removed, the stored paths are as before and every file
\* that was on disk is still there; and a swap whose commit succeeds is
\* answered with success whether or not the old file could be removed.
C26_RemoveAfterCommit ==
    [][\A image \in Uploads :
          /\ Swap(image, FALSE)
             => /\ removed' = NoRemove
                /\ UNCHANGED <<profile_image, featured_image>>
                /\ disk \subseteq disk'
                /\ iresponse'.status = 500
          /\ Swap(image, TRUE) => iresponse'.status \in {200, 302}]_vars

(***************************************************************************)
(* delete_project: the row, its reviews, the image file and the profile    *)
(***************************************************************************)
\* create_review: the insert of a review of the project, committed
create_review_row ==
    /\ project_row
    /\ project_reviews < MaxReviews
    /\ project_reviews' = project_reviews + 1
    /\ UNCHANGED <<project_row, dresponse>>
    /\ UNCHANGED imageVars
    /\ UNCHANGED NotDelete

\* create_project after the project was deleted: a new row with the column's
\* default image
create_project_row ==
    /\ ~project_row
    /\ project_row' = TRUE
    /\ featured_image' = DefaultPath
    /\ removed' = NoRemove
    /\ iresponse' = ImageReply("create_project", 201, 0, "created")
    /\ UNCHANGED <<project_reviews, dresponse>>
    /\ UNCHANGED <<profile_image, disk, dayDir, nextFile>>
    /\ UNCHANGED NotDelete

\* Update_project_image of projects/projects.py, called by the owner with a
\* good image: the path is stored as users/utils.py returns it, then the old
\* file is removed
Update_project_image_stored(image) ==
    LET r == save_and_compress_image(image, nextFile)
        old_image_path == featured_image
    IN  /\ project_row
        /\ nextFile <= MaxFiles
        /\ r.status = 200
        /\ Upload(image)
        /\ featured_image' = r.file
        /\ iresponse' = ImageReply("Update_project_image", 200, 200, r.detail)
        /\ IF old_image_path # Path("/static/", "images/default.jpg")
           THEN removed' = old_image_path
                /\ disk' = os_remove(disk \cup {r.file}, old_image_path)
           ELSE removed' = NoRemove /\ disk' = disk \cup {r.file}
        /\ UNCHANGED profile_image
        /\ UNCHANGED deleteVars
        /\ UNCHANGED NotDelete

\* the flush of the deleted Project: Project.reviews has no delete cascade,
\* so the reviews of the project are loaded and their project_id is set to
\* NULL, which the column (Mapped[uuid.UUID], NOT NULL) refuses
IntegrityError(n) == n > 0

DeleteReply(a, st) == [op |-> "delete_project", actor |-> a, status |-> st]

\* delete_project (page, POST): no check of the requester; db.delete(project),
\* commit_db; no file is removed
delete_project_page(a) ==
    /\ IF ~project_row
       THEN dresponse' = DeleteReply(a, 404) /\ UNCHANGED project_row
       ELSE IF IntegrityError(project_reviews)
       THEN dresponse' = DeleteReply(a, 500) /\ UNCHANGED project_row
       ELSE dresponse' = DeleteReply(a, 302) /\ project_row' = FALSE
    /\ UNCHANGED project_reviews
    /\ UNCHANGED imageVars
    /\ UNCHANGED NotDelete

\* delete_project (JSON): _get_project, the owner check, the image file,
\* then db.delete(user)
delete_project_json(a) ==
    IF project_row /\ a = Owner
    THEN delete_project_file
    ELSE /\ iresponse' = ImageReply("delete_project", IF project_row THEN 401 ELSE 500, 0,
                                    IF project_row THEN "not authorized" ELSE "AttributeError")
         /\ removed' = NoRemove
         /\ UNCHANGED <<profile_image, featured_image, disk, dayDir, nextFile>>
         /\ UNCHANGED deleteVars
         /\ UNCHANGED NotDelete

DeleteInit ==
    /\ project_row = TRUE
    /\ project_reviews = 0
    /\ dresponse = DeleteReply(Anonymous, 0)

GoodImage == [filename |-> <<"a", "jpg">>, size |-> MAX_FILE_SIZE, content |-> "image"]

DeleteNext ==
    \/ create_review_row
    \/ create_project_row
    \/ Update_project_image_stored(GoodImage)
    \/ \E a \in Users : delete_project_page(a)
    \/ \E a \in Users : delete_project_json(a)

\* a delete_project request of actor a, on either route
DeleteRequest(a) == delete_project_page(a) \/ delete_project_json(a)

\* C24: delete_project requested by the owner removes the Project row and
\* its reviews and removes or alters no Profile; the project's image file is
\* removed only if the row is deleted.
C24_DeleteProjectByOwner ==
    [][/\ (project_row /\ DeleteRequest(Owner))
          => /\ ~project_row'
             /\ project_reviews' = 0
             /\ profile_image' = profile_image
       /\ \A a \in Users :
             (DeleteRequest(a) /\ disk' # disk) => (project_row /\ ~project_row')]_vars

(***************************************************************************)
(* Paginator and pages_range                                               *)
(***************************************************************************)
\* math.ceil(total / size) for total >= 0 and size # 0
ceilFloor(total, size) == IF size > 0 THEN total \div size ELSE 0 - (total \div (0 - size))
ceil(total, size) ==
    IF size < 0 THEN 0 - (total \div (0 - size))
    ELSE IF total % size = 0 THEN total \div size ELSE (total \div size) + 1

\* an optional page number: None is <<>>, the page n is <<n>>
NoPage == <<>>
\* the string '...' in the list of pages_range; the page numbers are 1 or more
Ellipsis == 0

\* Paginator.__init__
Paginator(page, size, total) ==
    LET pages == ceil(total, size)
    IN  [page_size |-> size,
         current_page |-> page,
         items |-> total,
         pages |-> pages,
         next_page |-> IF page < pages THEN <<page + 1>> ELSE NoPage,
         previous_page |-> IF page > 1 THEN <<page - 1>> ELSE NoPage]

\* list(range(a, b))
range(a, b) == [i \in 1..(b - a) |-> a + i - 1]
max(a, b) == IF a >= b THEN a ELSE b
min(a, b) == IF a <= b THEN a ELSE b

\* Paginator.pages_range(on_each_side, on_ends)
pages_range(self, on_each_side, on_ends) ==
    LET max_display == on_each_side * 2 + on_ends * 2 + 1
        start == max(1, self.current_page - on_each_side)
        end == min(self.pages, self.current_page + on_each_side)
        middle == range(start, end + 1)
        beginning == IF start > on_ends + 1
                     THEN range(1, on_ends + 1) \o <<Ellipsis>>
                     ELSE range(1, start)
        ending == IF end < self.pages - on_ends
                  THEN <<Ellipsis>> \o range(self.pages - on_ends + 1, self.pages + 1)
                  ELSE range(end + 1, self.pages + 1)
    IN  IF self.pages <= max_display
        THEN range(1, self.pages + 1)
        ELSE beginning \o middle \o ending

NotBuilt == [built |-> FALSE]
NotCalled == [called |-> FALSE]

\* paginator = Paginator(page, size, total)
Paginator_init ==
    /\ ~paginator.built
    /\ paginator' = [built |-> TRUE, self |-> Paginator(pinput.page, pinput.size, pinput.total)]
    /\ UNCHANGED <<pinput, prange>>
    /\ UNCHANGED NotPages

\* paginator.pages_range(), as the templates call it, with the defaults
call_pages_range ==
    /\ paginator.built
    /\ ~prange.called
    /\ prange' = [called |-> TRUE, list |-> pages_range(paginator.self, 2, 2)]
    /\ UNCHANGED <<pinput, paginator>>
    /\ UNCHANGED NotPages

\* the arguments the list handlers pass: a page of 1 or more, a positive
\* size, a count of rows
PaginatorInit ==
    /\ pinput \in [page : 1..MaxPage, size : 1..MaxSize, total : 0..MaxTotal]
    /\ paginator = NotBuilt
    /\ prange = NotCalled

NoPaginator ==
    /\ pinput = [page |-> 1, size |-> 1, total |-> 0]
    /\ paginator = NotBuilt
    /\ prange = NotCalled

PaginatorNext == Paginator_init \/ call_pages_range

Numbers(list) == {list[i] : i \in {j \in DOMAIN list : list[j] # Ellipsis}}
NextNumber(list, i) ==
    LET later == {j \in DOMAIN list : j > i /\ list[j] # Ellipsis}
    IN  IF later = {} THEN 0 ELSE CHOOSE j \in later : \A k \in later : j <= k

PageParams == {<<>>, <<0 - 1>>, <<0>>, <<1>>, <<2>>, <<3>>}
SizeParams == {<<>>, <<0 - 1>>, <<0>>, <<5>>, <<9>>, <<10>>, <<12>>}
Totals == {0, 5, 30}

\* int(request.query_params.get(name, default))
get(param, default) == IF param = <<>> THEN default ELSE param[1]

\* search_users / search_projects: start = (page - 1) * size, and then
\* Paginator(page, size, total), whose division fails for size = 0
Listed(handler, page_param, size_param, page, size, total) ==
    [handler |-> handler, page_param |-> page_param, size_param |-> size_param,
     page |-> page, size |-> size, start |-> (page - 1) * size,
     status |-> IF size = 0 THEN 500 ELSE 200,
     paginator |-> IF size = 0 THEN <<>> ELSE <<Paginator(page, size, total)>>]

\* projects (render/projects/projects.py)
projects_page(page_param, size_param, total) ==
    /\ listing' = Listed("projects", page_param, size_param,
                         max(get(page_param, 1), 1), max(get(size_param, 9), 9), total)
    /\ UNCHANGED NotLists

\* profiles (render/users/profiles.py): both numbers are read from 'page'
profiles_page(page_param, size_param, total) ==
    /\ listing' = Listed("profiles", page_param, size_param,
                         max(get(page_param, 1), 1), max(get(page_param, 9), 9), total)
    /\ UNCHANGED NotLists

\* profiles (render/users_renders.py): both numbers are read from 'page',
\* neither is clamped
users_renders_profiles(page_param, size_param, total) ==
    /\ listing' = Listed("users_renders.profiles", page_param, size_param,
                         get(page_param, 1), get(page_param, 10), total)
    /\ UNCHANGED NotLists

ListInit == listing = Listed("none", <<>>, <<>>, 1, 9, 0)

ListNext ==
    \/ \E pp \in PageParams, sp \in SizeParams, total \in Totals : projects_page(pp, sp, total)
    \/ \E pp \in PageParams, sp \in SizeParams, total \in Totals : profiles_page(pp, sp, total)
    \/ \E pp \in PageParams, sp \in SizeParams, total \in Totals :
          users_renders_profiles(pp, sp, total)

\* the least page size of a list handler
MinimumSize(handler) == IF handler = "users_renders.profiles" THEN 10 ELSE 9

\* C19: in every list handler the page used is max(page parameter, 1) and
\* the size used is max(size parameter, the handler's minimum of 9 or 10),
\* the defaults standing for absent parameters, so that the offset is never
\* negative and Paginator never gets a size of 0 or less.
C19_PageAndSizeClamped ==
    listing.handler # "none"
    => /\ listing.page = max(get(listing.page_param, 1), 1)
       /\ listing.size = max(get(listing.size_param, MinimumSize(listing.handler)),
                              MinimumSize(listing.handler))
       /\ listing.start >= 0
       /\ listing.size > 0

(***************************************************************************)
(* search_projects                                                         *)
(***************************************************************************)
\* the titles and the tag names, letter by letter
TitleText(t) == IF t = "t1" THEN <<"A", "b">> ELSE <<"c", "d">>
TagText(n) == IF n = "a" THEN <<"a">> ELSE <<"b", "c">>
\* project_title_or_tag; the empty one stands for an absent one as well
Queries == {<<>>, <<"a">>, <<"B">>, <<"c">>, <<"x">>}

\* text ILIKE '%query%'
ilike(text, query) ==
    \E i \in 0..(Len(text) - Len(query)) :
        \A k \in 1..Len(query) : lower(text[i + k]) = lower(query[k])

\* the rows of the statement: with a query, the projects joined with their
\* tags of which the title or the name of some tag is like the query
SearchRows(query) ==
    IF query = <<>>
    THEN DOMAIN projects
    ELSE {p \in DOMAIN projects :
            \E t \in tags : /\ Linked(p, t.id)
                            /\ \/ ilike(TitleText(projects[p].title), query)
                               \/ ilike(TagText(t.name), query)}

\* the orders of ORDER BY created DESC: Project.created defaults to the
\* value datetime.now() had when the module was loaded, so the rows one
\* server process has made tie and the database may return them in any order
Orders(S) ==
    {seq \in [1..Cardinality(S) -> S] : \A i, j \in DOMAIN seq : i # j => seq[i] # seq[j]}

\* OFFSET start LIMIT size
Slice(seq, start, size) == SubSeq(seq, start + 1, min(Len(seq), start + size))

search_projects(project_title_or_tag, page, size) ==
    /\ \E seq \in Orders(SearchRows(project_title_or_tag)) :
          searched' = [called |-> TRUE, query |-> project_title_or_tag, page |-> page,
                    size |-> size, result |-> Slice(seq, (page - 1) * size, size)]
    /\ UNCHANGED tagVars
    /\ UNCHANGED NotSearch

SearchInit == searched = [called |-> FALSE, query |-> <<>>, page |-> 1, size |-> 9, result |-> <<>>]

\* one user makes projects and tags them on the update form; anyone searches
SearchNext ==
    \/ \E t \in Titles : create_project(Owner, t)
    \/ \E p \in 1..NumProjects, t \in Titles, n \in TagNames :
          update_project(Owner, p, t, FALSE, {n})
    \/ \E q \in Queries, page \in 1..2, size \in {1, 9} : search_projects(q, page, size)

\* the projects the query designates, newest first: a later project has
\* the greater number
Designated(query) ==
    {p \in DOMAIN projects :
        \/ ilike(TitleText(projects[p].title), query)
        \/ \E t \in tags : Linked(p, t.id) /\ ilike(TagText(t.name), query)}
RECURSIVE NewestFirst(_)
NewestFirst(S) ==
    IF S = {} THEN <<>>
    ELSE LET p == CHOOSE x \in S : \A y \in S : x >= y
         IN  <<p>> \o NewestFirst(S \ {p})

\* C20: search_projects with a non-empty query returns the requested page
\* of the list, newest first and each project once, of exactly the projects
\* whose title contains the query or that have a tag whose name contains
\* it, upper and lower case alike; a project whose title matches is
\* returned whether or not it has a tag.
C20_SearchResult ==
    (searched.called /\ searched.query # <<>>)
    => searched.result = Slice(NewestFirst(Designated(searched.query)),
                            (searched.page - 1) * searched.size, searched.size)

(***************************************************************************)
(* The listings of projects on the pages and the total of their Paginator  *)
(***************************************************************************)
\* select(func.count(Project.project_id)): the rows of table projects
count_obj == Cardinality(DOMAIN projects)

\* get_user_projects: where(Project.owner_id == user_id)
OwnedBy(user_id) == {p \in DOMAIN projects : projects[p].owner_id = user_id}

Shown(handler, profile_id, query, page, size, items, pg) ==
    [called |-> TRUE, handler |-> handler, profile |-> profile_id, query |-> query,
     page |-> page, size |-> size, projects |-> items, paginator |-> pg]

\* _user_profile, called by user_profile and account: the page of the
\* profile's projects and the Paginator
user_profile(profile_id, page, size) ==
    /\ \E seq \in Orders(OwnedBy(profile_id)) :
          shown' = Shown("_user_profile", profile_id, <<>>, page, size,
                         Slice(seq, (page - 1) * size, size),
                         Paginator(page, size, count_obj))
    /\ UNCHANGED tagVars
    /\ UNCHANGED NotCounts

\* projects (page) with a search_query: the page of search_projects and the
\* Paginator
projects_search(search_query, page, size) ==
    /\ \E seq \in Orders(SearchRows(search_query)) :
          shown' = Shown("projects", Anonymous, search_query, page, size,
                         Slice(seq, (page - 1) * size, size),
                         Paginator(page, size, count_obj))
    /\ UNCHANGED tagVars
    /\ UNCHANGED NotCounts

CountInit ==
    shown = [called |-> FALSE, handler |-> "none", profile |-> Anonymous, query |-> <<>>,
             page |-> 1, size |-> 9, projects |-> <<>>, paginator |-> Paginator(1, 9, 0)]

\* two users make projects, one tags them on the update form; the pages of
\* the handlers have 9 items at least
CountNext ==
    \/ \E a \in Users, t \in Titles : create_project(a, t)
    \/ \E p \in 1..NumProjects, t \in Titles, n \in TagNames :
          update_project(Owner, p, t, FALSE, {n})
    \/ \E profile_id \in Users, page \in 1..2 : user_profile(profile_id, page, 9)
    \/ \E q \in Queries \ {<<>>}, page \in 1..2 : projects_search(q, page, 9)

\* the Paginator p is that of a listing of n items
PaginatorOf(p, n) ==
    /\ p.items = n
    /\ p.pages = ceil(n, p.page_size)
    /\ p.current_page = p.pages => p.next_page = NoPage

\* C30: in every page listing the total given to the Paginator is the number
\* of items of the listing shown: the projects owned by the profile on the
\* user-profile and account pages, the projects matching the query on the
\* projects page with a search query; so pages is the last page that holds an
\* item and next_page is none on that page.
C30_TotalIsListingCount ==
    [][/\ \A profile_id \in Users, page \in 1..2 :
             user_profile(profile_id, page, 9)
             => PaginatorOf(shown'.paginator, Cardinality(OwnedBy(profile_id)))
       /\ \A q \in Queries \ {<<>>}, page \in 1..2 :
             projects_search(q, page, 9)
             => PaginatorOf(shown'.paginator, Cardinality(SearchRows(q)))]_vars

Init == ReviewInit /\ TagInit /\ PatchInit /\ NoValidation /\ UserInit /\ TokenInit /\ AssignInit /\ MessageInit /\ ImageInit /\ NoPaginator /\ ListInit /\ SearchInit /\ DeleteInit /\ SessionInit /\ CountInit

\* the states in which user_validation is called
InitValidation ==
    ReviewInit /\ TagInit /\ PatchInit /\ ValidationInit /\ UserInit /\ TokenInit /\ AssignInit /\ MessageInit /\ ImageInit /\ NoPaginator /\ ListInit /\ SearchInit /\ DeleteInit /\ SessionInit /\ CountInit

\* the states in which a Paginator is built
InitPages ==
    ReviewInit /\ TagInit /\ PatchInit /\ NoValidation /\ UserInit /\ TokenInit /\ AssignInit /\ MessageInit /\ ImageInit /\ PaginatorInit /\ ListInit /\ SearchInit /\ DeleteInit /\ SessionInit /\ CountInit

SpecReviews == Init /\ [][ReviewNext]_vars

SpecTags == Init /\ [][TagNext]_vars

SpecAssign == Init /\ [][AssignNext]_vars

SpecPatches == Init /\ [][PatchNext]_vars

SpecValidation == InitValidation /\ [][ValidationNext]_vars

SpecUsers == Init /\ [][UserNext]_vars

SpecTokens == Init /\ [][TokenNext]_vars

SpecMessages == Init /\ [][MessageNext]_vars

SpecImages == Init /\ [][ImageNext]_vars

SpecPages == InitPages /\ [][PaginatorNext]_vars

SpecLists == Init /\ [][ListNext]_vars

SpecSearch == Init /\ [][SearchNext]_vars

SpecDelete == Init /\ [][DeleteNext]_vars

SpecSessions == Init /\ [][SessionNext]_vars

SpecPurpose == Init /\ [][PurposeNext]_vars

SpecCounts == Init /\ [][CountNext]_vars

====
